---- MODULE Spec2Model ----
(***************************************************************************)
(* Chunked extraction-and-merge pipeline of the carepilot backend:         *)
(*   - BenefitsExtractionAgentCoT.extract_from_document                    *)
(*   - EOBExtractionAgentCoT.extract_from_document                         *)
(*   - BenefitsExtractionAgent._merge_benefits / _extract_iteratively      *)
(* JSON values returned by the completion function are modelled as tagged  *)
(* records, Python truthiness and exceptions are modelled explicitly.      *)
(***************************************************************************)
EXTENDS Integers, Sequences, FiniteSets, TLC

\* ------------------------------------------------------------------ bounds
\* Longest JSON array a completion carries.
MaxList == 2
\* Longest step list passed to extract_from_document.
MaxSteps == 2
\* Chunk indices the vector store knows: 0 .. MaxChunk-1.
MaxChunk == 2

\* --------------------------------------------------------- program constants
\* queries[:3] : seed queries used per step.
SeedsPerStep == 3
\* amount_owed > 1000 raises the "High amount" alert.
HighAmount == 1000

\* ------------------------------------------------------------- JSON values
\* dict.get(key) of a missing key: None. The marker stands for "no such key".
Absent == "~"

\* A scalar inside a nested object (coverage_breakdown sub-field).
SNull == [t |-> "null", s |-> "", n |-> 0]
SNum(i) == [t |-> "num", s |-> "", n |-> i]
SStr(x) == [t |-> "str", s |-> x, n |-> 0]

NoObj == [k \in {} |-> SNull]
NoList == <<>>

\* An element of a JSON array: null, a string, or an object. Of an object the
\* model keeps its natural key (service_name / service_description; Absent when
\* the object has no such key) and v, which stands for the rest of the record
\* (amount_billed for an EOB service). A generated message keeps its two amounts
\* in v and w.
INull == [t |-> "null", s |-> "", name |-> Absent, v |-> 0, w |-> 0]
IStr(x) == [t |-> "str", s |-> x, name |-> Absent, v |-> 0, w |-> 0]
IObj(nm, val) == [t |-> "obj", s |-> "", name |-> nm, v |-> val, w |-> 0]
IMsg(x, a, b) == [t |-> "str", s |-> x, name |-> Absent, v |-> a, w |-> b]

\* A top-level JSON value: null, string, number, boolean, array or object.
JNull == [t |-> "null", s |-> "", n |-> 0, l |-> NoList, o |-> NoObj]
JStr(x) == [t |-> "str", s |-> x, n |-> 0, l |-> NoList, o |-> NoObj]
JNum(i) == [t |-> "num", s |-> "", n |-> i, l |-> NoList, o |-> NoObj]
JBool(b) == [t |-> "bool", s |-> "", n |-> IF b THEN 1 ELSE 0, l |-> NoList, o |-> NoObj]
JList(q) == [t |-> "list", s |-> "", n |-> 0, l |-> q, o |-> NoObj]
JObj(f) == [t |-> "obj", s |-> "", n |-> 0, l |-> NoList, o |-> f]
\* The outcome "an exception was raised" of an operation that returns a value.
JRaise == [t |-> "raise", s |-> "", n |-> 0, l |-> NoList, o |-> NoObj]

\* Python truth value of a scalar: None, "", 0 and False are falsy.
STruthy(x) ==
    CASE x.t = "null" -> FALSE
      [] x.t = "str" -> x.s # ""
      [] OTHER -> x.n # 0

\* Python truth value: None, "", 0, False, [] and {} are falsy.
Truthy(x) ==
    CASE x.t = "null" -> FALSE
      [] x.t = "str" -> x.s # ""
      [] x.t = "num" -> x.n # 0
      [] x.t = "bool" -> x.n # 0
      [] x.t = "list" -> Len(x.l) > 0
      [] x.t = "obj" -> DOMAIN x.o # {}
      [] OTHER -> FALSE

\* Truth value of s.get("service_name"): None (no key) and "" are falsy.
NameTruthy(nm) == nm # Absent /\ nm # ""

\* A Python dict: a function from its keys. d[k] = v.
Put(d, k, v) == [x \in (DOMAIN d) \cup {k} |-> IF x = k THEN v ELSE d[x]]
\* d.get(k) as a truth value.
GetTruthy(d, k) == k \in DOMAIN d /\ Truthy(d[k])
\* The empty dict {}.
EmptyDict == [k \in {} |-> JNull]
\* d.get(k): None when absent.
GetOr(d, k) == IF k \in DOMAIN d THEN d[k] ELSE JNull
\* The elements of a list value (none for a value that is not a list).
ListOf(x) == IF x.t = "list" THEN x.l ELSE <<>>

\* ---------------------------------------------------------------- helpers
Range(q) == {q[i] : i \in 1..Len(q)}

\* isinstance(x, dict) for every element of a list: s.get(...) raises on others.
AllObjects(q) == \A i \in 1..Len(q) : q[i].t = "obj"

\* An insertion-ordered dict key -> record built by d[key] = record: a repeated
\* key keeps its first position and takes the last record.
RECURSIVE DictInsertAll(_, _)
DictInsertAll(d, q) ==
    IF q = <<>> THEN d
    ELSE LET it == Head(q)
             hit == {i \in 1..Len(d) : d[i].name = it.name}
         IN  IF hit = {}
             THEN DictInsertAll(Append(d, it), Tail(q))
             ELSE DictInsertAll([i \in 1..Len(d) |-> IF i \in hit THEN it ELSE d[i]],
                                Tail(q))

\* The records of q whose key is truthy and not yet a key of d, appended in order.
RECURSIVE DictAddNew(_, _)
DictAddNew(d, q) ==
    IF q = <<>> THEN d
    ELSE LET it == Head(q)
         IN  IF NameTruthy(it.name) /\ \A i \in 1..Len(d) : d[i].name # it.name
             THEN DictAddNew(Append(d, it), Tail(q))
             ELSE DictAddNew(d, Tail(q))

\* q without its truthy-key-less records (the "if s.get('service_name')" filter).
SelectNamed(q) == SelectSeq(q, LAMBDA it : NameTruthy(it.name))

\* q with later duplicates removed, first occurrences kept in order.
RECURSIVE Dedup(_)
Dedup(q) ==
    IF q = <<>> THEN <<>>
    ELSE LET r == Dedup(SubSeq(q, 1, Len(q) - 1))
             x == q[Len(q)]
         IN  IF x \in Range(r) THEN r ELSE Append(r, x)

Reverse(q) == [i \in 1..Len(q) |-> q[Len(q) + 1 - i]]

\* list(set(q)): each value once, in the iteration order of the set, which the
\* language leaves unspecified (hash order). ord picks the order.
ListOfSet(q, ord) == IF ord = 0 THEN Dedup(q) ELSE Reverse(Dedup(q))

\* set(q) raises TypeError on an unhashable element (a dict).
Hashable(q) == \A i \in 1..Len(q) : q[i].t # "obj"

\* ------------------------------------------------ the per-step merge (CoT)
ComplexListKeys == {"deductibles", "copays", "coinsurance", "coverage_limits", "services"}
SimpleListKeys == {"exclusions", "preauth_required_services", "special_programs"}
EOBSimpleListKeys == {"alerts", "discrepancies"}

\* Merge of step lists that are kept by a natural key. keep_unnamed: whether the
\* accumulated records without a truthy key enter the key -> record dict
\* (benefits CoT filters them out, EOB CoT and _merge_benefits do not).
MergeServices(existing, value, keep_unnamed) ==
    IF \/ existing.t # "list" \/ value.t # "list"
       \/ ~AllObjects(existing.l) \/ ~AllObjects(value.l)
    THEN JRaise
    ELSE JList(DictAddNew(
                 DictInsertAll(<<>>, IF keep_unnamed THEN existing.l
                                     ELSE SelectNamed(existing.l)),
                 value.l))

\* list(set(existing + value))
MergeSimpleList(existing, value, ord) ==
    IF existing.t # "list" \/ value.t # "list" \/ ~Hashable(existing.l \o value.l)
    THEN JRaise
    ELSE JList(ListOfSet(existing.l \o value.l, ord))

\* existing + value, deduplicated by json.dumps(item, sort_keys=True)
MergeComplexList(existing, value) ==
    IF existing.t # "list" THEN JRaise
    ELSE JList(Dedup(existing.l \o value.l))

\* One iteration of "for key, value in step_result.items()" of
\* BenefitsExtractionAgentCoT.extract_from_document: the new all_results[key],
\* or JRaise when the iteration raises.
MergeKeyBenefitsCoT(A, key, value, ord) ==
    IF key \notin DOMAIN A \/ ~Truthy(A[key]) THEN value
    ELSE IF value.t = "list" /\ Len(value.l) > 0
         THEN IF key \in ComplexListKeys
              THEN IF key = "services"
                   THEN MergeServices(A[key], value, FALSE)
                   ELSE MergeComplexList(A[key], value)
              ELSE IF key \in SimpleListKeys
                   THEN MergeSimpleList(A[key], value, ord)
                   ELSE A[key]
         ELSE IF Truthy(value) THEN value
              ELSE A[key]

\* Field-wise merge of two coverage_breakdown objects: a sub-field takes the
\* step's value when that is truthy and the accumulated one is absent or falsy.
MergeBreakdownFields(a, v) ==
    LET take == {k \in DOMAIN v : STruthy(v[k]) /\ (k \notin DOMAIN a \/ ~STruthy(a[k]))}
    IN  [k \in (DOMAIN a) \cup take |-> IF k \in take THEN v[k] ELSE a[k]]

MergeBreakdown(existing, value) ==
    IF existing.t # "obj" THEN JRaise
    ELSE IF ~("total_billed" \in DOMAIN existing.o /\ STruthy(existing.o["total_billed"]))
         THEN value
         ELSE JObj(MergeBreakdownFields(existing.o, value.o))

\* One iteration of the merge loop of EOBExtractionAgentCoT.extract_from_document.
MergeKeyEOBCoT(A, key, value, ord) ==
    IF key \notin DOMAIN A \/ ~Truthy(A[key]) THEN value
    ELSE IF value.t = "list" /\ Len(value.l) > 0
         THEN IF key = "services"
              THEN MergeServices(A[key], value, TRUE)
              ELSE IF key \in EOBSimpleListKeys
                   THEN MergeSimpleList(A[key], value, ord)
                   ELSE A[key]
         ELSE IF value.t = "obj" /\ key = "coverage_breakdown"
              THEN MergeBreakdown(A[key], value)
              ELSE IF Truthy(value) THEN value
                   ELSE A[key]

MergeKey(ag, A, key, value, ord) ==
    IF ag = "benefits" THEN MergeKeyBenefitsCoT(A, key, value, ord)
    ELSE MergeKeyEOBCoT(A, key, value, ord)

\* The whole merge loop over step_result.items(), in the order of the object's
\* keys. An exception leaves the keys merged so far in place and ends the step.
RECURSIVE MergeStep(_, _, _, _)
MergeStep(ag, A, pairs, ord) ==
    IF pairs = <<>> THEN [res |-> A, exc |-> FALSE]
    ELSE LET k == Head(pairs)[1]
             nv == MergeKey(ag, A, k, Head(pairs)[2], ord)
         IN  IF nv.t = "raise" THEN [res |-> A, exc |-> TRUE]
             ELSE MergeStep(ag, Put(A, k, nv), Tail(pairs), ord)

\* ------------------------------------------------- inputs of a CoT run
\* All sequences over S of length at most n.
SeqsUpTo(S, n) == UNION {[1..k -> S] : k \in 0..n}

\* The run's arguments.
UserId == "u1"
DocumentId == "d1"

\* Step names: two steps of STEP_PROMPTS / EOB_STEP_PROMPTS and a name that is
\* in neither (a caller-provided step the agent does not know).
UnknownStep == "step0_unknown"
KnownSteps(ag) ==
    IF ag = "benefits" THEN {"step1_basic_info", "step6_service_coverage"}
    ELSE {"step1_member_info", "step4_service_details"}

\* The fields a step's prompt asks for (of those the model carries).
StepFields(st) ==
    CASE st = "step1_basic_info" -> {"plan_name"}
      [] st = "step6_service_coverage" -> {"services"}
      [] st = "step1_member_info" -> {"member_name"}
      [] st = "step4_service_details" -> {"services"}
      [] OTHER -> {}

\* len(queries[:3]) for the step: every known step has at least 3 seed
\* queries, an unknown step has none (STEP_QUERIES.get(step_name, [])).
NumSeeds(ag, st) == IF st \in KnownSteps(ag) THEN SeedsPerStep ELSE 0

\* The JSON objects the completion function answers with, as the sequence of
\* their (key, value) pairs in the order of the text. Each run draws its
\* answers from one vocabulary; the vocabularies differ in the kind of field.
ScalarVals == {JNull, JStr(""), JStr("Acme"), JStr("Beta")}
SimpleItems == {IStr("x"), IStr("y"), IObj(Absent, 1)}
ServiceItems == {IObj("a", 1), IObj("a", 2), IObj("b", 1), IObj(Absent, 1), INull}
ComplexItems == {IObj(Absent, 1), IObj(Absent, 2), INull}
SubVals == {SNum(0), SNum(5), SNum(9)}
SubKeys == {"total_billed", "amount_you_owe"}
Breakdowns == UNION {[D -> SubVals] : D \in SUBSET SubKeys}

ListVals(items) == {JNull} \cup {JList(q) : q \in SeqsUpTo(items, MaxList)}

Single(k, vals) == {<< <<k, v>> >> : v \in vals}

\* Objects of one or two keys from the given one-key objects.
UpToTwoKeys(singles) ==
    singles \cup {p[1] \o p[2] :
                    p \in {q \in singles \X singles : q[1][1][1] # q[2][1][1]}}

ScalarKey(ag) == IF ag = "benefits" THEN "plan_name" ELSE "member_name"
SimpleKey(ag) == IF ag = "benefits" THEN "exclusions" ELSE "alerts"

MixedSingles(ag) ==
    IF ag = "benefits"
    THEN Single("plan_name", {JStr("Acme")})
         \cup Single("deductibles", {JList(<<IObj(Absent, 1)>>), JList(<<INull>>)})
         \cup Single("services", {JStr("n/a"), JList(<<IObj("a", 1)>>)})
    ELSE Single("member_name", {JStr("Acme")})
         \cup Single("amount_you_owe", {JNum(2000), JStr("abc")})
         \cup Single("total_billed", {JNum(5), JStr("$2,000")})
         \cup Single("alerts", {JNull, JList(<<IStr("x")>>)})
         \cup Single("services", {JList(<<IObj("a", 5)>>), JList(<<IStr("x")>>)})

\* Answers that carry keys with the names of the metadata envelope.
MetadataSingles ==
    Single("user_id", {JStr("u2"), JNull})
    \cup Single("source_document_id", {JStr("d2")})
    \cup Single("extracted_date", {JStr("then")})

VocabNames ==
    {"scalars", "simple_lists", "services", "complex_lists", "breakdown", "mixed", "metadata"}

Vocabulary(ag, vn) ==
    CASE vn = "scalars" -> {<<>>} \cup Single(ScalarKey(ag), ScalarVals)
      [] vn = "simple_lists" -> Single(SimpleKey(ag), ListVals(SimpleItems))
      [] vn = "services" -> Single("services", ListVals(ServiceItems))
      [] vn = "complex_lists" -> Single("deductibles", ListVals(ComplexItems))
      [] vn = "breakdown" ->
            Single("coverage_breakdown", {JNull} \cup {JObj(f) : f \in Breakdowns})
      [] vn = "metadata" -> {<<>>} \cup UpToTwoKeys(MetadataSingles)
      [] OTHER -> UpToTwoKeys(MixedSingles(ag))

\* What one call of the completion function gives: no response (chat returns
\* None), text in which no JSON is found, JSON that is not an object, or one
\* of the vocabulary's objects.
Completions(ag, vn) ==
    {[kind |-> "transport_null", body |-> <<>>],
     [kind |-> "unparsable", body |-> <<>>],
     [kind |-> "not_object", body |-> <<>>]}
    \cup {[kind |-> "json", body |-> b] : b \in Vocabulary(ag, vn)}

KeysOf(pairs) == {pairs[i][1] : i \in 1..Len(pairs)}

\* dict(pairs).get(k) is truthy.
PairsGetTruthy(pairs, k) == \E i \in 1..Len(pairs) : pairs[i][1] = k /\ Truthy(pairs[i][2])
PairsGet(pairs, k) == pairs[CHOOSE i \in 1..Len(pairs) : pairs[i][1] = k][2]

\* --------------------------------------------------- chunk prioritisation
RECURSIVE SortedSeq(_)
\* sorted(S) for a set of chunk indices
SortedSeq(S) ==
    IF S = {} THEN <<>>
    ELSE LET m == CHOOSE x \in S : \A y \in S : x <= y
         IN  <<m>> \o SortedSeq(S \ {m})

\* A caller that takes the selector's empty set as "no chunks".
StepChunksNoFallback(rel, cs) ==
    IF rel # {}
    THEN SortedSeq(rel \cap cs) \o SortedSeq(cs \ rel)
    ELSE <<>>

\* A text that puts the remaining chunks before the relevant ones.
StepChunksRemainingFirst(rel, cs) ==
    IF rel # {}
    THEN SortedSeq(cs \ rel) \o SortedSeq(rel \cap cs)
    ELSE SortedSeq(cs)

\* A text made of the chunks the selector returned only.
StepChunksRelevantOnly(rel, cs) ==
    IF rel # {}
    THEN SortedSeq(rel \cap cs)
    ELSE SortedSeq(cs)

\* The chunks of the step's document text, in order (a chunk is named by its
\* index): the relevant ones first, then the remaining ones; all chunks when
\* the selector found none.
StepChunks(rel, cs) ==
    IF rel # {}
    THEN SortedSeq(rel \cap cs) \o SortedSeq(cs \ rel)
    ELSE SortedSeq(cs)

\* A selector that trusts the chunk_index of every match.
KnownMatchesUnchecked(matches, cs) == matches

\* The indices a seed query adds to relevant_indices: those of its matches
\* that are keys of the cached chunk dict.
KnownMatches(matches, cs) == matches \cap cs

\* -------------------------------------------------------- finalization
\* f"Unknown Plan - {document_id}"
UnknownPlan(doc) ==
    CASE doc = "d1" -> "Unknown Plan - d1"
      [] doc = "d2" -> "Unknown Plan - d2"
      [] OTHER -> "Unknown Plan - "

\* datetime.now().isoformat()
Now == "now"

\* A finalization that fills in the envelope only where the accumulated
\* result has no such key.
AddMetadataIfMissing(A) ==
    LET put(d, k, v) == IF k \in DOMAIN d THEN d ELSE Put(d, k, v)
    IN  put(put(put(A, "user_id", JStr(UserId)), "source_document_id", JStr(DocumentId)),
            "extracted_date", JStr(Now))

\* all_results["user_id"] = user_id, ["source_document_id"] = document_id,
\* ["extracted_date"] = now
AddMetadata(A) ==
    Put(Put(Put(A, "user_id", JStr(UserId)), "source_document_id", JStr(DocumentId)),
        "extracted_date", JStr(Now))

\* "for x in value" raises on None, a number or a boolean, and the loop body
\* ('"network" in x', x.get) raises on a null element.
IterRaises(x) ==
    \/ x.t \in {"null", "num", "bool"}
    \/ x.t = "list" /\ \E i \in 1..Len(x.l) : x.l[i].t = "null"

\* value.lower().strip() followed by the service alias table; the strings of
\* the model that it changes.
NormalizeService(nm) ==
    CASE nm = "Primary Care" -> "primary_care"
      [] nm = " A " -> "a"
      [] OTHER -> nm

NormalizeServiceItem(it) ==
    IF it.t = "obj" /\ it.name # Absent
    THEN [it EXCEPT !.name = NormalizeService(it.name)]
    ELSE it

BenefitsNormKeys == {"deductibles", "copays", "coinsurance", "coverage_limits", "services"}

\* _normalize_benefits_data: [exc |-> an exception escapes, res |-> the data]
NormalizeBenefitsData(data) ==
    IF \E k \in BenefitsNormKeys \cap DOMAIN data : IterRaises(data[k])
    THEN [exc |-> TRUE, res |-> data]
    ELSE [exc |-> FALSE,
          res |-> [k \in DOMAIN data |->
                     IF k = "services" /\ data[k].t = "list"
                     THEN JList([i \in 1..Len(data[k].l) |-> NormalizeServiceItem(data[k].l[i])])
                     ELSE data[k]]]

\* The re-extraction of the plan_name check found a plan_name.
PlanNameFound(A, c) ==
    ~GetTruthy(A, "plan_name") /\ c.kind = "json" /\ PairsGetTruthy(c.body, "plan_name")

\* A plan_name check without the default: the re-extracted plan_name is taken
\* when truthy, and nothing is put in its place when it is not.
EnsurePlanNameNoDefault(A, c) ==
    IF PlanNameFound(A, c) THEN Put(A, "plan_name", PairsGet(c.body, "plan_name")) ELSE A

\* The plan_name check after the step loop: when plan_name is missing, step 1
\* is run once more on all chunks; its plan_name is taken when truthy, the
\* placeholder when it is not or when the extraction raises.
EnsurePlanName(A, c) ==
    IF GetTruthy(A, "plan_name") THEN A
    ELSE IF c.kind = "json" /\ PairsGetTruthy(c.body, "plan_name")
         THEN Put(A, "plan_name", PairsGet(c.body, "plan_name"))
         ELSE Put(A, "plan_name", JStr(UnknownPlan(DocumentId)))

\* Lines 545-582 of benefits_agent_cot.py.
FinalizeBenefitsCoT(A, c) == NormalizeBenefitsData(AddMetadata(EnsurePlanName(A, c)))

\* --- EOB
AmountFields == {"total_billed", "total_benefits_approved", "amount_you_owe",
                 "total_not_covered", "total_covered_before_deductions",
                 "total_coinsurance", "total_deductions"}

\* float(re.sub(r'[$,]', '', s)); -1 stands for ValueError.
ParseAmount(x) ==
    CASE x = "$2,000" -> 2000
      [] x = "5" -> 5
      [] OTHER -> -1

\* An amount field after normalisation: a string is parsed (0.0 when that
\* fails), a number is kept, anything else becomes 0.0.
NormAmountNum(t, x, n) ==
    CASE t = "str" -> IF ParseAmount(x) < 0 THEN 0 ELSE ParseAmount(x)
      [] t \in {"num", "bool"} -> n
      [] OTHER -> 0

NormAmount(x) == IF x.t = "bool" THEN x ELSE JNum(NormAmountNum(x.t, x.s, x.n))
NormSubAmount(x) == SNum(NormAmountNum(x.t, x.s, x.n))

EnsureEOBRequired(A) ==
    LET a1 == IF GetTruthy(A, "member_name") THEN A
              ELSE Put(A, "member_name", JStr("Unknown Member"))
        a2 == IF GetTruthy(a1, "claim_number") THEN a1
              ELSE Put(a1, "claim_number", JStr(DocumentId))
    IN  IF GetTruthy(a2, "provider_name") THEN a2
        ELSE Put(a2, "provider_name", JStr("Weill Cornell Medicine"))

\* _normalize_eob_data
NormalizeEOBData(data) ==
    IF \/ "services" \in DOMAIN data /\ IterRaises(data["services"])
       \/ "coverage_breakdown" \in DOMAIN data
          /\ Truthy(data["coverage_breakdown"])
          /\ data["coverage_breakdown"].t \in {"num", "bool"}
    THEN [exc |-> TRUE, res |-> data]
    ELSE [exc |-> FALSE,
          res |-> [k \in DOMAIN data |->
                     IF k \in AmountFields THEN NormAmount(data[k])
                     ELSE IF k = "coverage_breakdown" /\ data[k].t = "obj"
                          THEN JObj([f \in DOMAIN data[k].o |->
                                       IF f \in AmountFields
                                       THEN NormSubAmount(data[k].o[f])
                                       ELSE data[k].o[f]])
                          ELSE data[k]]]

Abs(i) == IF i < 0 THEN -i ELSE i

RECURSIVE SumBilled(_)
\* sum(s.get("amount_billed", 0.0) for s in services)
SumBilled(q) == IF q = <<>> THEN 0 ELSE Head(q).v + SumBilled(Tail(q))

\* data.get(k, 0.0) of a normalised amount
AmountOf(data, k) == IF k \in DOMAIN data THEN data[k].n ELSE 0

\* data.get(k, [])
ListOrEmpty(data, k) == IF k \in DOMAIN data THEN data[k] ELSE JList(<<>>)

\* "if m not in xs: xs.append(m)" : raises unless xs is a list
AppendNew(xs, m) ==
    IF xs.t # "list" THEN JRaise
    ELSE IF m \in Range(xs.l) THEN xs ELSE JList(Append(xs.l, m))

HasDuplicateNames(q) ==
    \E i, j \in 1..Len(q) : i # j /\ q[i].name = q[j].name

\* _calculate_alerts_and_discrepancies
CalculateAlerts(data) ==
    LET owed == AmountOf(data, "amount_you_owe")
        billed == AmountOf(data, "total_billed")
        approved == AmountOf(data, "total_benefits_approved")
        a0 == ListOrEmpty(data, "alerts")
        a1 == IF owed > HighAmount THEN AppendNew(a0, IStr("High amount")) ELSE a0
        d0 == ListOrEmpty(data, "discrepancies")
        d1 == IF Abs((billed - approved) - owed) > 1
              THEN AppendNew(d0, IMsg("Amount mismatch", billed - approved, owed))
              ELSE d0
        has == "services" \in DOMAIN data /\ Truthy(data["services"])
        svc == IF has THEN data["services"] ELSE JList(<<>>)
        bad == has /\ (svc.t # "list" \/ ~AllObjects(svc.l))
        d2 == IF d1.t # "raise" /\ has /\ ~bad /\ Abs(SumBilled(svc.l) - billed) > 1
              THEN AppendNew(d1, IMsg("Service total mismatch", SumBilled(svc.l), billed))
              ELSE d1
        d3 == IF d2.t # "raise" /\ has /\ ~bad /\ HasDuplicateNames(svc.l)
              THEN AppendNew(d2, IMsg("Duplicate services found", 0, 0))
              ELSE d2
    IN  IF a1.t = "raise" \/ d3.t = "raise" \/ bad
        THEN [exc |-> TRUE, res |-> data]
        ELSE [exc |-> FALSE, res |-> Put(Put(data, "alerts", a1), "discrepancies", d3)]

\* Lines 430-461 of eob_agent_cot.py.
FinalizeEOBCoT(A) ==
    LET n == NormalizeEOBData(AddMetadata(EnsureEOBRequired(A)))
    IN  IF n.exc THEN n ELSE CalculateAlerts(n.res)

\* ===================================================================
\* BenefitsExtractionAgent (benefits_agent.py): extract_from_text,
\* _analyze_missing_information, _merge_benefits
\* ===================================================================
\* Bound: the largest max_iterations a run is started with.
MaxIterations == 3
\* len(benefits.get("services", [])) < 3
MinServices == 3

BasicKeys == {"plan_name", "plan_type", "insurance_provider", "policy_number",
              "group_number", "effective_date", "expiration_date",
              "out_of_pocket_max_individual", "out_of_pocket_max_family",
              "in_network_providers", "network_notes", "preauth_notes",
              "exclusion_notes", "additional_benefits", "notes"}
ListFields == {"deductibles", "copays", "coinsurance", "coverage_limits",
               "services", "exclusions", "preauth_required_services", "special_programs"}
UniqueEntryFields == {"deductibles", "copays", "coinsurance", "coverage_limits"}

\* InsuranceBenefits.from_dict(data).to_dict() for a dict that went through
\* _normalize_benefits_data: plan_name gets the placeholder when missing, an
\* optional scalar is kept when truthy, a record list keeps the entries that
\* are objects (a service without service_name is named "unknown"), the
\* primitive lists and out_of_network_coverage are passed through (None
\* becomes [] for a list, a missing out_of_network_coverage is False).
SchemaRecords(x, named) ==
    LET q == SelectSeq(ListOf(x), LAMBDA it : it.t = "obj")
    IN  JList([i \in 1..Len(q) |->
                 IF named /\ q[i].name = Absent THEN [q[i] EXCEPT !.name = "unknown"]
                 ELSE q[i]])

SchemaKeys(data) ==
    {"plan_name", "out_of_network_coverage"} \cup ListFields
    \cup {k \in (BasicKeys \cup {"extracted_date", "source_document_id", "user_id"})
               \cap DOMAIN data : Truthy(data[k])}

FromDictToDict(data) ==
    [k \in SchemaKeys(data) |->
       CASE k = "plan_name" ->
               IF GetTruthy(data, k) THEN data[k] ELSE JStr(UnknownPlan(DocumentId))
         [] k = "out_of_network_coverage" ->
               IF k \in DOMAIN data THEN data[k] ELSE JBool(FALSE)
         [] k \in UniqueEntryFields -> SchemaRecords(GetOr(data, k), FALSE)
         [] k = "services" -> SchemaRecords(GetOr(data, k), TRUE)
         [] k \in ListFields ->
               IF k \notin DOMAIN data \/ data[k].t = "null" THEN JList(<<>>) ELSE data[k]
         [] OTHER -> data[k]]

\* The pairs of a JSON object as a dict (a repeated key takes the last value).
RECURSIVE DictOf(_)
DictOf(pairs) ==
    IF pairs = <<>> THEN EmptyDict
    ELSE Put(DictOf(SubSeq(pairs, 1, Len(pairs) - 1)),
             pairs[Len(pairs)][1], pairs[Len(pairs)][2])

\* extract_from_text for completion c: raises when there is no response, when
\* the text is not JSON, and when normalisation or the metadata assignment
\* raises on the parsed value; else the validated record.
ExtractFromText(c) ==
    IF c.kind # "json" THEN [exc |-> TRUE, res |-> EmptyDict]
    ELSE LET n == NormalizeBenefitsData(DictOf(c.body))
         IN  IF n.exc THEN [exc |-> TRUE, res |-> EmptyDict]
             ELSE [exc |-> FALSE, res |-> FromDictToDict(AddMetadata(n.res))]

\* len(x) raises on a number, a boolean and None. A non-empty string of the
\* model counts as one character.
Sized(x) == x.t \in {"str", "list", "obj"}
SizeOf(x) ==
    CASE x.t = "str" -> IF x.s = "" THEN 0 ELSE 1
      [] x.t = "list" -> Len(x.l)
      [] OTHER -> Cardinality(DOMAIN x.o)

\* "not benefits.get(k) or len(benefits.get(k, [])) < n": the category is
\* missing; raises when the value is truthy and has no len().
ShortList(b, k, n) == ~GetTruthy(b, k) \/ SizeOf(b[k]) < n
LenRaises(b, k) == GetTruthy(b, k) /\ ~Sized(b[k])

IsNone(b, k) == k \notin DOMAIN b \/ b[k].t = "null"

\* A checklist that is content with any service at all.
MissingChecksAnyService(b) ==
    << <<"plan_name", ~GetTruthy(b, "plan_name")>>,
       <<"insurance_provider", ~GetTruthy(b, "insurance_provider")>>,
       <<"policy_number", ~GetTruthy(b, "policy_number")>>,
       <<"deductibles", ShortList(b, "deductibles", 1)>>,
       <<"copays", ShortList(b, "copays", 1)>>,
       <<"out_of_pocket_maximums", ~GetTruthy(b, "out_of_pocket_max_individual")>>,
       <<"service_coverage", ShortList(b, "services", 1)>>,
       <<"network_information",
         IsNone(b, "in_network_providers") /\ IsNone(b, "network_notes")>>,
       <<"exclusions", ShortList(b, "exclusions", 1)>> >>

\* The checklist of _analyze_missing_information, in its order: category and
\* whether it is missing.
MissingChecks(b) ==
    << <<"plan_name", ~GetTruthy(b, "plan_name")>>,
       <<"insurance_provider", ~GetTruthy(b, "insurance_provider")>>,
       <<"policy_number", ~GetTruthy(b, "policy_number")>>,
       <<"deductibles", ShortList(b, "deductibles", 1)>>,
       <<"copays", ShortList(b, "copays", 1)>>,
       <<"out_of_pocket_maximums", ~GetTruthy(b, "out_of_pocket_max_individual")>>,
       <<"service_coverage", ShortList(b, "services", MinServices)>>,
       <<"network_information",
         IsNone(b, "in_network_providers") /\ IsNone(b, "network_notes")>>,
       <<"exclusions", ShortList(b, "exclusions", 1)>> >>

RECURSIVE Flagged(_)
Flagged(checks) ==
    IF checks = <<>> THEN <<>>
    ELSE IF Head(checks)[2] THEN <<Head(checks)[1]>> \o Flagged(Tail(checks))
         ELSE Flagged(Tail(checks))

\* _analyze_missing_information: [exc, missing]
AnalyzeMissing(b) ==
    IF \E k \in {"deductibles", "copays", "services", "exclusions"} : LenRaises(b, k)
    THEN [exc |-> TRUE, missing |-> <<>>]
    ELSE [exc |-> FALSE, missing |-> Flagged(MissingChecks(b))]

\* merged_list = existing_list.copy(); each item of new_list is appended unless
\* it is already in merged_list.
RECURSIVE AppendMissing(_, _)
AppendMissing(q, new) ==
    IF new = <<>> THEN q
    ELSE IF Head(new) \in Range(q) THEN AppendMissing(q, Tail(new))
         ELSE AppendMissing(Append(q, Head(new)), Tail(new))

MergeUniqueEntries(existing, value) ==
    IF existing.t # "list" \/ value.t # "list" THEN JRaise
    ELSE JList(AppendMissing(existing.l, value.l))

\* merged.get(field, []) / new.get(field, [])
GetList(d, k) == IF k \in DOMAIN d THEN d[k] ELSE JList(<<>>)

\* The list-field loop of _merge_benefits for one field.
MergeListField(existing, new, field, ord) ==
    LET existing_list == GetList(existing, field)
        new_list == GetList(new, field)
    IN  IF ~Truthy(existing_list) THEN new_list
        ELSE IF ~Truthy(new_list) THEN existing_list
        ELSE IF field = "services" THEN MergeServices(existing_list, new_list, TRUE)
        ELSE IF field \in UniqueEntryFields
             THEN MergeUniqueEntries(existing_list, new_list)
             ELSE MergeSimpleList(existing_list, new_list, ord)

\* merged[key] after _merge_benefits(existing, new).
MergeBenefitsKey(existing, new, k, ord) ==
    CASE k = "out_of_network_coverage" ->
            IF k \in DOMAIN new THEN new[k] ELSE existing[k]
      [] k \in ListFields -> MergeListField(existing, new, k, ord)
      [] k \in BasicKeys ->
            IF k \in DOMAIN new /\ ~GetTruthy(existing, k) THEN new[k] ELSE existing[k]
      [] OTHER -> existing[k]

MergedKeys(existing, new) ==
    DOMAIN existing \cup ListFields
    \cup (DOMAIN new \cap (BasicKeys \cup {"out_of_network_coverage"}))

\* _merge_benefits: [exc, res]
MergeBenefits(existing, new, ord) ==
    LET m == [k \in MergedKeys(existing, new) |-> MergeBenefitsKey(existing, new, k, ord)]
    IN  [exc |-> \E k \in DOMAIN m : m[k].t = "raise", res |-> m]

\* "merged = existing" without the copy: the key writes of the call reach the
\* dict that was passed as existing.
ExistingAfterKeyWritesShared(existing, m) == m

\* "merged = existing.copy()": every "merged[key] = ..." of the call writes a
\* dict of its own; the dict passed as existing keeps its keys and values.
ExistingAfterKeyWrites(existing, m) == existing

\* "merged_list = existing_list.copy()": the items are appended to a list of
\* its own; the list held by the argument keeps its items.
ListAfterAppends(existing_list, merged_list) == existing_list

\* The two argument objects after the call _merge_benefits(existing, new):
\* the only statements that write into an object are the key writes on
\* merged and the appends on merged_list; new is only read.
MergeBenefitsArgs(existing, new, ord) ==
    LET m == MergeBenefits(existing, new, ord)
        appended(k) == /\ k \in UniqueEntryFields
                       /\ Truthy(existing[k])
                       /\ Truthy(GetList(new, k))
                       /\ m.res[k].t # "raise"
        lists == [k \in DOMAIN existing |->
                    IF appended(k) THEN ListAfterAppends(existing[k], m.res[k])
                    ELSE existing[k]]
    IN  [existing |-> ExistingAfterKeyWrites(lists, m.res), new |-> new]

\* ------------------------------------------- inputs of an iterative run
Rec(nm) == IObj(nm, 1)
BasicInfo ==
    << <<"plan_name", JStr("Acme")>>, <<"insurance_provider", JStr("Acme")>>,
       <<"policy_number", JStr("P1")>> >>
Financial ==
    << <<"deductibles", JList(<<IObj(Absent, 1)>>)>>, <<"copays", JList(<<IObj(Absent, 2)>>)>>,
       <<"out_of_pocket_max_individual", JNum(500)>> >>
Coverage ==
    << <<"services", JList(<<Rec("a"), Rec("b"), Rec("c")>>)>>,
       <<"network_notes", JStr("n")>>, <<"exclusions", JList(<<IStr("x")>>)>> >>

\* The JSON objects the completion function answers a pass with.
IterVocabulary ==
    {<<>>, BasicInfo, Financial, Coverage, BasicInfo \o Financial \o Coverage,
     << <<"insurance_provider", JStr("Beta")>> >>,
     << <<"services", JList(<<Rec("a"), IObj("a", 2)>>)>> >>,
     << <<"exclusions", JList(<<IStr("x"), IStr("x")>>)>> >>,
     << <<"exclusions", JNum(5)>> >>,
     << <<"deductibles", JList(<<INull>>)>> >>,
     << <<"out_of_network_coverage", JNull>>, <<"policy_number", JStr("P1")>> >>,
     << <<"out_of_network_coverage", JBool(TRUE)>> >>}

IterCompletions ==
    {[kind |-> "transport_null", body |-> <<>>],
     [kind |-> "unparsable", body |-> <<>>],
     [kind |-> "not_object", body |-> <<>>]}
    \cup {[kind |-> "json", body |-> b] : b \in IterVocabulary}

\* ===================================================================
\* PineconeVectorStore._chunk_text (pinecone_store.py). A text is a sequence
\* of one-character strings; Python indices count from 0.
\* ===================================================================
\* Bounds: the longest text and the largest chunk_size of the runs of the
\* fixed strategy alone, and of the runs of all three strategies.
MaxText == 6
MaxSize == 5
MaxShortText == 6
MaxShortSize == 4
\* Bound: the loop of _chunk_fixed is followed for at most this many chunks.
MaxChunks == 8

NL == "\n"
Alphabet == {"A", ".", " ", NL}
Whitespace == {" ", NL}

Min(a, b) == IF a < b THEN a ELSE b
Max(a, b) == IF a > b THEN a ELSE b

\* Python's t[a:b]: a negative index counts from the end, an index beyond the
\* text is clipped.
ClipIndex(i, n) == IF i < 0 THEN Max(n + i, 0) ELSE Min(i, n)
Slice(t, a, b) ==
    LET lo == ClipIndex(a, Len(t))
        hi == ClipIndex(b, Len(t))
    IN  IF lo >= hi THEN <<>> ELSE SubSeq(t, lo + 1, hi)

\* t[a:]
SliceFrom(t, a) == Slice(t, a, Len(t))

\* str.strip()
Strip(t) ==
    LET keep == {i \in 1..Len(t) : t[i] \notin Whitespace}
    IN  IF keep = {} THEN <<>>
        ELSE SubSeq(t, CHOOSE i \in keep : \A j \in keep : i <= j,
                       CHOOSE i \in keep : \A j \in keep : i >= j)

\* The indices (from 0) at which pat occurs in t.
Occurrences(t, pat) ==
    {i \in 0..(Len(t) - Len(pat)) : SubSeq(t, i + 1, i + Len(pat)) = pat}

\* str.rfind(pat) and str.find(pat): -1 when pat does not occur.
RFind(t, pat) ==
    IF Occurrences(t, pat) = {} THEN -1
    ELSE CHOOSE i \in Occurrences(t, pat) : \A j \in Occurrences(t, pat) : i >= j
Find(t, pat) ==
    IF Occurrences(t, pat) = {} THEN -1
    ELSE CHOOSE i \in Occurrences(t, pat) : \A j \in Occurrences(t, pat) : i <= j

MaxOf(S) == CHOOSE x \in S : \A y \in S : x >= y

\* text.split('\n\n')
RECURSIVE SplitParagraphs(_)
SplitParagraphs(t) ==
    LET i == Find(t, <<NL, NL>>)
    IN  IF i = -1 THEN <<t>>
        ELSE <<Slice(t, 0, i)>> \o SplitParagraphs(SliceFrom(t, i + 2))

\* The matches of (?<=[.!?])\s+(?=[A-Z]): <<i, j>> where the whitespace
\* t[i:j] follows a sentence end and is followed by an upper-case letter.
SentenceBreaks(t) ==
    {m \in (1..Len(t)) \X (1..Len(t)) :
        /\ m[1] < m[2] /\ m[2] < Len(t)
        /\ t[m[1]] = "."
        /\ \A k \in (m[1] + 1)..m[2] : t[k] \in Whitespace
        /\ t[m[2] + 1] = "A"}

\* re.split(r'(?<=[.!?])\s+(?=[A-Z])', text)
RECURSIVE SplitSentences(_)
SplitSentences(t) ==
    IF SentenceBreaks(t) = {} THEN <<t>>
    ELSE LET m == CHOOSE m \in SentenceBreaks(t) : \A o \in SentenceBreaks(t) : m[1] <= o[1]
         IN  <<Slice(t, 0, m[1])>> \o SplitSentences(SliceFrom(t, m[2]))

\* current_chunk[-overlap:]
LastChars(t, n) == SliceFrom(t, Len(t) - n)

\* "Sentence itself is too long, split it": the first chunk_size characters
\* are emitted and the rest (from chunk_size - overlap) becomes the buffer.
SentenceTooLong(sentence, chunk_size, overlap) ==
    [emit |-> <<Slice(sentence, 0, chunk_size)>>,
     cur |-> IF Len(sentence) > chunk_size - overlap
             THEN SliceFrom(sentence, chunk_size - overlap)
             ELSE sentence]

\* A loop body that never flushes the buffer: the unit is always added to it.
UnitStepNoFlush(unit, chunks, cur, chunk_size, overlap, sep, long) ==
    [chunks |-> chunks, cur |-> IF cur # <<>> THEN cur \o sep \o unit ELSE unit]

\* The body of the loop over the sentences (sep = " ") and over the paragraphs
\* (sep = "\n\n") for one stripped, non-empty unit. long: what the branch for
\* a unit that does not fit an empty buffer emits and leaves in the buffer.
UnitStep(unit, chunks, cur, chunk_size, overlap, sep, long) ==
    IF Len(cur) + Len(unit) + Len(sep) > chunk_size
    THEN IF cur # <<>>
         THEN [chunks |-> Append(chunks, Strip(cur)),
               cur |-> IF overlap > 0 /\ Len(cur) > overlap
                       THEN LastChars(cur, overlap) \o sep \o unit
                       ELSE unit]
         ELSE [chunks |-> chunks \o long.emit, cur |-> long.cur]
    ELSE [chunks |-> chunks,
          cur |-> IF cur # <<>> THEN cur \o sep \o unit ELSE unit]

\* "if current_chunk: chunks.append(current_chunk.strip())"
Flush(chunks, cur) == IF cur # <<>> THEN Append(chunks, Strip(cur)) ELSE chunks

RECURSIVE SentenceLoop(_, _, _, _, _)
SentenceLoop(sentences, chunks, cur, chunk_size, overlap) ==
    IF sentences = <<>> THEN Flush(chunks, cur)
    ELSE LET sentence == Strip(Head(sentences))
         IN  IF sentence = <<>>
             THEN SentenceLoop(Tail(sentences), chunks, cur, chunk_size, overlap)
             ELSE LET r == UnitStep(sentence, chunks, cur, chunk_size, overlap, <<" ">>,
                                    SentenceTooLong(sentence, chunk_size, overlap))
                  IN  SentenceLoop(Tail(sentences), r.chunks, r.cur, chunk_size, overlap)

\* _chunk_by_sentence
ChunkBySentence(t, chunk_size, overlap) ==
    SentenceLoop(SplitSentences(t), <<>>, <<>>, chunk_size, overlap)

\* "Paragraph itself is too long, split it by sentence": all sub-chunks but
\* the last are emitted and the last becomes the buffer.
ParagraphTooLong(para, chunk_size, overlap) ==
    LET sub_chunks == ChunkBySentence(para, chunk_size, overlap)
    IN  IF sub_chunks = <<>> THEN [emit |-> <<>>, cur |-> para]
        ELSE [emit |-> SubSeq(sub_chunks, 1, Len(sub_chunks) - 1),
              cur |-> sub_chunks[Len(sub_chunks)]]

RECURSIVE ParagraphLoop(_, _, _, _, _)
ParagraphLoop(paragraphs, chunks, cur, chunk_size, overlap) ==
    IF paragraphs = <<>> THEN Flush(chunks, cur)
    ELSE LET para == Strip(Head(paragraphs))
         IN  IF para = <<>>
             THEN ParagraphLoop(Tail(paragraphs), chunks, cur, chunk_size, overlap)
             ELSE LET r == UnitStep(para, chunks, cur, chunk_size, overlap, <<NL, NL>>,
                                    ParagraphTooLong(para, chunk_size, overlap))
                  IN  ParagraphLoop(Tail(paragraphs), r.chunks, r.cur, chunk_size, overlap)

\* _chunk_by_paragraph
ChunkByParagraph(t, chunk_size, overlap) ==
    ParagraphLoop(SplitParagraphs(t), <<>>, <<>>, chunk_size, overlap)

\* The patterns _chunk_fixed looks for to break at a sentence boundary.
BreakPatterns == {<<".", " ">>, <<".", NL>>, <<"?", " ">>, <<"!", " ">>, <<NL, NL>>, <<NL>>}

\* One iteration of the while loop of _chunk_fixed with the window at start:
\* the chunk appended and the end of the window.
FixedWindow(t, start, chunk_size) ==
    LET end == start + chunk_size
        chunk == Slice(t, start, end)
        sentence_end == MaxOf({RFind(chunk, pat) : pat \in BreakPatterns})
    IN  IF end < Len(t) /\ 2 * sentence_end > chunk_size
        THEN [chunk |-> Slice(chunk, 0, sentence_end + 1),
              end |-> start + Len(Slice(chunk, 0, sentence_end + 1))]
        ELSE [chunk |-> chunk, end |-> end]

\* ===================================================================
\* extract_from_document of the two CoT agents, as a state machine. One
\* action per external call (vector-store query, completion) with the code
\* that follows it up to the next call.
\* ===================================================================
VARIABLES
    agent,            \* "benefits" (BenefitsExtractionAgentCoT) or "eob"
    vocab,            \* the vocabulary the completion function answers from
    pc,               \* "gather", "loop", "select", "extract", "done", "raised"
    chunks,           \* keys of all_document_chunks_dict
    step_idx,         \* steps of the list started so far
    step_name,        \* the step being run
    seed_idx,         \* seed queries of the step issued so far
    relevant_indices, \* relevant_indices of _get_relevant_chunk_indices_for_step
    step_chunks,      \* chunks of the step's document text, in order
    step_result,      \* pairs of the step_result being merged
    all_results,      \* the accumulated result
    ret,              \* the record returned to the caller
    \* history, for stating properties
    seed_ok,          \* some seed query of the step did not raise
    unknown_seen,     \* some seed query of the step matched an index outside the cache
    last,             \* outcome of the last step: "none", "ok", "parse_error",
                      \* "transport_error", "unknown_step", "merge_error";
                      \* of finalization: "plan_name_found", "none"
    parse_failures,   \* number of steps whose completion could not be parsed
    failed_step,      \* the last of them
    other_failed,     \* some step failed otherwise
    supplied,         \* keys for which a parsed step result carried a truthy value
    \* _extract_iteratively of BenefitsExtractionAgent (agent = "basic")
    max_iterations,   \* the argument
    iteration,        \* the loop variable of "for iteration in range(2, max_iterations + 1)"
    passes,           \* calls of extract_from_text issued so far
    all_chunks,       \* keys of all_chunks
    used_chunk_indices,
    additional_chunks, \* keys of additional_chunks
    missing_info,     \* missing_info of the iteration
    current_benefits, \* the accumulated record
    merged_benefits,  \* the record the last refinement pass merged
    completion,       \* history: kind of the completion of the last pass
    \* _chunk_text of PineconeVectorStore (agent = "chunker")
    text,             \* the argument text
    chunk_size,       \* the argument chunk_size
    chunk_overlap,    \* the argument chunk_overlap
    strategy,         \* the argument strategy
    start,            \* start of the window of _chunk_fixed
    text_chunks,      \* the chunks appended so far / returned
    arg_existing,     \* _merge_benefits: the dict passed as existing
    arg_new,          \* _merge_benefits: the dict passed as new
    merged,           \* _merge_benefits: the dict it returns
    user_id,          \* query_private: the argument user_id
    doc_types,        \* query_private: the argument doc_types
    additional_filter,\* query_private: the argument additional_filter
    filter_dict,      \* query_private: the filter sent to the index
    query_matches,    \* query_private: the matches the index answers with
    state,            \* process_claim: the AgentState of the workflow
    data,             \* _normalize_benefits_data: the record it is called on
    alias             \* the canonical network type the record's strings are variants of

\* The variables of a CoT run only, and of an iterative run only.
cotVars == <<chunks, step_idx, step_name, seed_idx, relevant_indices, step_chunks,
             step_result, all_results, seed_ok, unknown_seen, last, parse_failures, failed_step,
             other_failed, supplied>>
iterVars == <<max_iterations, iteration, passes, all_chunks, used_chunk_indices,
              additional_chunks, missing_info, current_benefits, merged_benefits,
              completion>>

chunkVars == <<text, chunk_size, chunk_overlap, strategy, start, text_chunks>>

mergeVars == <<arg_existing, arg_new, merged>>
queryVars == <<user_id, doc_types, additional_filter, filter_dict, query_matches>>
claimVars == <<state>>
\* The variables of the calls that are not part of an extraction run.
normVars == <<data, alias>>
extVars == <<mergeVars, queryVars, claimVars, normVars>>

vars == <<agent, vocab, pc, ret, cotVars, iterVars, chunkVars, extVars>>

\* No CoT run / no iterative run is going on.
CoTIdle ==
    /\ chunks = {}
    /\ step_idx = 0
    /\ step_name = ""
    /\ seed_idx = 0
    /\ relevant_indices = {}
    /\ step_chunks = <<>>
    /\ step_result = <<>>
    /\ all_results = EmptyDict
    /\ seed_ok = FALSE
    /\ unknown_seen = FALSE
    /\ last = "none"
    /\ parse_failures = 0
    /\ failed_step = ""
    /\ other_failed = FALSE
    /\ supplied = {}
IterIdle ==
    /\ max_iterations = 0
    /\ iteration = 0
    /\ passes = 0
    /\ all_chunks = {}
    /\ used_chunk_indices = {}
    /\ additional_chunks = {}
    /\ missing_info = <<>>
    /\ current_benefits = EmptyDict
    /\ merged_benefits = EmptyDict
    /\ completion = "none"

ChunkIdle ==
    /\ text = <<>>
    /\ chunk_size = 0
    /\ chunk_overlap = 0
    /\ strategy = ""
    /\ start = 0
    /\ text_chunks = <<>>

MergeIdle ==
    /\ arg_existing = EmptyDict
    /\ arg_new = EmptyDict
    /\ merged = EmptyDict
QueryIdle ==
    /\ user_id = ""
    /\ doc_types = <<>>
    /\ additional_filter = EmptyDict
    /\ filter_dict = EmptyDict
    /\ query_matches = {}
ClaimIdle == state = EmptyDict
NormIdle == data = EmptyDict /\ alias = ""
ExtIdle == MergeIdle /\ QueryIdle /\ ClaimIdle /\ NormIdle

Init ==
    /\ agent \in {"benefits", "eob"}
    /\ vocab \in VocabNames
    /\ pc = "gather"
    /\ ret = EmptyDict
    /\ CoTIdle
    /\ IterIdle
    /\ ChunkIdle
    /\ ExtIdle

\* _get_all_document_chunks_dict: the chunks with text of the matches; the
\* empty dict when the query raises or matches nothing.
GatherChunks(cs) ==
    /\ pc = "gather"
    /\ chunks' = cs
    /\ pc' = "loop"
    /\ UNCHANGED <<iterVars, chunkVars, extVars>>
    /\ UNCHANGED <<agent, vocab, step_idx, step_name, seed_idx, relevant_indices,
                   step_chunks, step_result, all_results, ret, seed_ok, unknown_seen, last,
                   parse_failures, failed_step, other_failed, supplied>>

\* for step_idx, step_name in enumerate(steps, 1): the next step of the list.
NextStep(st) ==
    /\ pc = "loop"
    /\ step_idx < MaxSteps
    /\ step_idx' = step_idx + 1
    /\ step_name' = st
    /\ seed_idx' = 0
    /\ relevant_indices' = {}
    /\ seed_ok' = FALSE
    /\ unknown_seen' = FALSE
    /\ step_chunks' = <<>>
    /\ step_result' = <<>>
    /\ last' = "none"
    /\ pc' = "select"
    /\ UNCHANGED <<iterVars, chunkVars, extVars>>
    /\ UNCHANGED <<agent, vocab, chunks, all_results, ret,
                   parse_failures, failed_step, other_failed, supplied>>

\* One seed query of _get_relevant_chunk_indices_for_step. raises: the
\* vector-store query raised (the seed is skipped and the loop over the seeds
\* continues); matches: the chunk_index values of its matches.
SeedQuery(raises, matches) ==
    /\ pc = "select"
    /\ seed_idx < NumSeeds(agent, step_name)
    /\ seed_idx' = seed_idx + 1
    /\ IF raises
       THEN /\ pc' = "select"
            /\ relevant_indices' = relevant_indices
            /\ seed_ok' = seed_ok
            /\ unknown_seen' = unknown_seen
       ELSE /\ pc' = "select"
            /\ relevant_indices' = relevant_indices \cup KnownMatches(matches, chunks)
            /\ seed_ok' = TRUE
            /\ unknown_seen' = (unknown_seen \/ matches \ chunks # {})
    /\ UNCHANGED <<iterVars, chunkVars, extVars>>
    /\ UNCHANGED <<agent, vocab, chunks, step_idx, step_name, step_chunks, step_result,
                   all_results, ret, last, parse_failures, failed_step, other_failed,
                   supplied>>

\* The selector returns relevant_indices and the step's document text is put
\* together from the cached chunks.
BuildStepText ==
    /\ pc = "select"
    /\ seed_idx >= NumSeeds(agent, step_name)
    /\ step_chunks' = StepChunks(relevant_indices, chunks)
    /\ pc' = "extract"
    /\ UNCHANGED <<iterVars, chunkVars, extVars>>
    /\ UNCHANGED <<agent, vocab, chunks, step_idx, step_name, seed_idx,
                   relevant_indices, step_result, all_results, ret, seed_ok, unknown_seen, last,
                   parse_failures, failed_step, other_failed, supplied>>

\* The outcome of _extract_step for completion c.
StepOutcome(ag, st, c) ==
    CASE st \notin KnownSteps(ag) -> "unknown_step"
      [] c.kind = "transport_null" -> "transport_error"
      [] c.kind = "unparsable" -> "parse_error"
      [] c.kind = "not_object" -> "merge_error"
      [] OTHER -> "ok"

\* Whether list(set(...)) is evaluated while merging the pairs.
UsesSetOrder(pairs) == KeysOf(pairs) \cap (SimpleListKeys \cup EOBSimpleListKeys) # {}

TruthyKeys(pairs) == {pairs[i][1] : i \in {j \in 1..Len(pairs) : Truthy(pairs[j][2])}}

\* A step loop that lets the missing response of the completion function
\* leave the run.
AfterStepPropagating(oc) == IF oc = "transport_error" THEN "raised" ELSE "loop"

\* "except Exception as e: ... continue": whatever the outcome of the step,
\* the loop goes on with the next step.
AfterStep(oc) == "loop"

\* _extract_step on the step's text and the merge of its result. Every
\* exception is caught and the loop continues with the next step.
ExtractAndMerge(c, ord) ==
    /\ pc = "extract"
    /\ ord = 0 \/ UsesSetOrder(c.body)
    /\ LET oc == StepOutcome(agent, step_name, c)
           m == MergeStep(agent, all_results, c.body, ord)
       IN  /\ all_results' = IF oc = "ok" THEN m.res ELSE all_results
           /\ last' = IF oc = "ok" /\ m.exc THEN "merge_error" ELSE oc
           /\ step_result' = IF oc = "ok" THEN c.body ELSE <<>>
           /\ parse_failures' = IF oc = "parse_error" THEN parse_failures + 1
                                ELSE parse_failures
           /\ failed_step' = IF oc = "parse_error" THEN step_name ELSE failed_step
           /\ other_failed' = (\/ other_failed
                               \/ oc \in {"unknown_step", "transport_error", "merge_error"}
                               \/ (oc = "ok" /\ m.exc))
           /\ supplied' = IF oc = "ok" THEN supplied \cup TruthyKeys(c.body) ELSE supplied
           /\ pc' = AfterStep(oc)
    /\ seed_idx' = 0
    /\ relevant_indices' = {}
    /\ step_chunks' = <<>>
    /\ seed_ok' = FALSE
    /\ unknown_seen' = FALSE
    /\ UNCHANGED <<iterVars, chunkVars, extVars>>
    /\ UNCHANGED <<agent, vocab, chunks, step_idx, step_name, ret>>

\* The completion that stands for "the completion function is not called".
NoCall == [kind |-> "transport_null", body |-> <<>>]

\* After the loop: required fields, metadata, normalisation (and the alert
\* calculation of the EOB agent). c: the completion of the plan_name
\* re-extraction, which is called only when plan_name is missing.
Finalize(c) ==
    /\ pc = "loop"
    /\ c = NoCall \/ (agent = "benefits" /\ ~GetTruthy(all_results, "plan_name"))
    /\ LET f == IF agent = "benefits" THEN FinalizeBenefitsCoT(all_results, c)
                ELSE FinalizeEOBCoT(all_results)
       IN  /\ pc' = IF f.exc THEN "raised" ELSE "done"
           /\ ret' = IF f.exc THEN EmptyDict ELSE f.res
    /\ step_result' = <<>>
    /\ last' = IF agent = "benefits" /\ PlanNameFound(all_results, c)
               THEN "plan_name_found" ELSE "none"
    /\ UNCHANGED <<iterVars, chunkVars, extVars>>
    /\ UNCHANGED <<agent, vocab, chunks, step_idx, step_name, seed_idx,
                   relevant_indices, step_chunks, all_results, seed_ok, unknown_seen,
                   parse_failures, failed_step, other_failed, supplied>>

Next ==
    \/ \E cs \in SUBSET (0..(MaxChunk - 1)) : GatherChunks(cs)
    \/ \E st \in KnownSteps(agent) \cup {UnknownStep} : NextStep(st)
    \/ \E raises \in BOOLEAN, matches \in SUBSET (0..MaxChunk) : SeedQuery(raises, matches)
    \/ BuildStepText
    \/ \E c \in Completions(agent, vocab), ord \in 0..1 : ExtractAndMerge(c, ord)
    \/ \E c \in Completions(agent, vocab) : Finalize(c)

Spec == Init /\ [][Next]_vars

\* The same runs with a completion function that answers from the "scalars"
\* vocabulary only.
InitScalars == Init /\ vocab = "scalars"
SpecSelector == InitScalars /\ [][Next]_vars

\* The runs with a completion function that answers with keys named like the
\* metadata envelope.
InitMetadata == Init /\ vocab = "metadata"
SpecMetadata == InitMetadata /\ [][Next]_vars

\* ===================================================================
\* BenefitsExtractionAgent._extract_iteratively as a state machine
\* pc: "start", "initial", "analyze", "refine", "returned", "raised"
\* ===================================================================
InitIter ==
    /\ agent = "basic"
    /\ vocab = "basic"
    /\ pc = "start"
    /\ ret = EmptyDict
    /\ CoTIdle
    /\ ChunkIdle
    /\ ExtIdle
    /\ max_iterations \in 1..MaxIterations
    /\ iteration = 0
    /\ passes = 0
    /\ all_chunks = {}
    /\ used_chunk_indices = {}
    /\ additional_chunks = {}
    /\ missing_info = <<>>
    /\ current_benefits = EmptyDict
    /\ merged_benefits = EmptyDict
    /\ completion = "none"

\* A loop that runs one iteration more: range(2, max_iterations + 2).
LoopHeadOneMore(i, b) ==
    /\ iteration' = i
    /\ IF i <= max_iterations + 1
       THEN pc' = "analyze" /\ ret' = ret
       ELSE pc' = "returned" /\ ret' = b

\* The head of "for iteration in range(2, max_iterations + 1)" with the loop
\* variable at i and the accumulated record b: the next analysis, or the
\* return of b after the loop.
LoopHead(i, b) ==
    /\ iteration' = i
    /\ IF i <= max_iterations
       THEN pc' = "analyze" /\ ret' = ret
       ELSE pc' = "returned" /\ ret' = b

\* The broad query for all chunks of the document. A query that raises and a
\* document without chunks end the run with an exception.
IterGather(raises, cs) ==
    /\ pc = "start"
    /\ IF raises \/ cs = {}
       THEN pc' = "raised" /\ all_chunks' = all_chunks
       ELSE pc' = "initial" /\ all_chunks' = cs
    /\ UNCHANGED <<agent, vocab, ret, cotVars, chunkVars, extVars, max_iterations, iteration, passes,
                   used_chunk_indices, additional_chunks, missing_info,
                   current_benefits, merged_benefits, completion>>

\* Iteration 1: extract_from_text on all chunks.
InitialPass(c) ==
    /\ pc = "initial"
    /\ passes' = passes + 1
    /\ completion' = c.kind
    /\ LET r == ExtractFromText(c)
       IN  IF r.exc
           THEN /\ pc' = "raised"
                /\ UNCHANGED <<ret, iteration, current_benefits, used_chunk_indices>>
           ELSE /\ current_benefits' = r.res
                /\ used_chunk_indices' = all_chunks
                /\ LoopHead(2, r.res)
    /\ UNCHANGED <<agent, vocab, cotVars, chunkVars, extVars, max_iterations, all_chunks,
                   additional_chunks, missing_info, merged_benefits>>

\* The top of an iteration: the completeness analysis and, when something is
\* missing, _query_missing_information. raises: one of its queries raised;
\* matches: the chunk indices its queries matched.
AnalyzeAndQuery(raises, matches) ==
    /\ pc = "analyze"
    /\ LET a == AnalyzeMissing(current_benefits)
       IN  IF a.exc \/ (a.missing # <<>> /\ raises)
           THEN /\ pc' = "raised"
                /\ UNCHANGED <<ret, missing_info, additional_chunks>>
           ELSE IF a.missing = <<>>
                THEN /\ pc' = "returned"
                     /\ ret' = current_benefits
                     /\ UNCHANGED <<missing_info, additional_chunks>>
                ELSE /\ pc' = "refine"
                     /\ missing_info' = a.missing
                     /\ additional_chunks' = matches \ used_chunk_indices
                     /\ ret' = ret
    /\ UNCHANGED <<agent, vocab, cotVars, chunkVars, extVars, max_iterations, iteration, passes,
                   all_chunks, used_chunk_indices, current_benefits, merged_benefits,
                   completion>>

\* A progress check that lets a pass with an unchanged count go on:
\* len(new_missing) > len(missing_info).
NoProgressStrict(new_missing, missing) == Len(new_missing) > Len(missing)

\* "if len(new_missing) >= len(missing_info)": no progress made.
NoProgress(new_missing, missing) == Len(new_missing) >= Len(missing)

\* The rest of the iteration: the focused extract_from_text, the merge, the
\* progress check, and the loop head.
RefinePass(c, ord) ==
    /\ pc = "refine"
    /\ passes' = passes + 1
    /\ completion' = c.kind
    /\ LET r == ExtractFromText(c)
           m == MergeBenefits(current_benefits, r.res, ord)
           new_missing == AnalyzeMissing(m.res)
       IN  IF r.exc \/ m.exc \/ new_missing.exc
           THEN /\ pc' = "raised"
                /\ UNCHANGED <<ret, iteration, current_benefits, used_chunk_indices,
                               all_chunks, merged_benefits>>
           ELSE IF NoProgress(new_missing.missing, missing_info)
                THEN /\ pc' = "returned"
                     /\ merged_benefits' = m.res
                     /\ current_benefits' =
                           MergeBenefitsArgs(current_benefits, r.res, ord).existing
                     /\ ret' = current_benefits'
                     /\ UNCHANGED <<iteration, used_chunk_indices, all_chunks>>
                ELSE /\ current_benefits' = m.res
                     /\ merged_benefits' = m.res
                     /\ used_chunk_indices' = used_chunk_indices \cup additional_chunks
                     /\ all_chunks' = all_chunks \cup additional_chunks
                     /\ LoopHead(iteration + 1, m.res)
    /\ UNCHANGED <<agent, vocab, cotVars, chunkVars, extVars, max_iterations, additional_chunks,
                   missing_info>>

NextIter ==
    \/ \E raises \in BOOLEAN, cs \in SUBSET (0..(MaxChunk - 1)) : IterGather(raises, cs)
    \/ \E c \in IterCompletions : InitialPass(c)
    \/ \E raises \in BOOLEAN, matches \in SUBSET (0..MaxChunk) :
          AnalyzeAndQuery(raises, matches)
    \/ \E c \in IterCompletions, ord \in 0..1 : RefinePass(c, ord)

\* The steps of a run are taken as long as it has not ended.
SpecIter == InitIter /\ [][NextIter]_vars /\ WF_vars(NextIter)

\* ===================================================================
\* PineconeVectorStore._chunk_text as a state machine
\* pc: "chunk", "fixed", "chunked"
\* ===================================================================
\* The pairs of well-formed chunk_size and chunk_overlap up to a size.
WellFormed(n) == {p \in (1..n) \X (0..n) : p[2] < p[1]}

ChunkStart ==
    /\ agent = "chunker"
    /\ vocab = "chunker"
    /\ pc = "chunk"
    /\ ret = EmptyDict
    /\ CoTIdle
    /\ IterIdle
    /\ ExtIdle
    /\ start = 0
    /\ text_chunks = <<>>

\* Calls with any of the three strategies.
InitChunk ==
    /\ ChunkStart
    /\ text \in SeqsUpTo(Alphabet, MaxShortText)
    /\ \E p \in WellFormed(MaxShortSize) : chunk_size = p[1] /\ chunk_overlap = p[2]
    /\ strategy \in {"fixed", "sentence", "paragraph"}

\* Calls with the fixed strategy.
InitChunkFixed ==
    /\ ChunkStart
    /\ text \in SeqsUpTo(Alphabet, MaxText)
    /\ \E p \in WellFormed(MaxSize) : chunk_size = p[1] /\ chunk_overlap = p[2]
    /\ strategy = "fixed"

\* "if len(text) <= chunk_size: return [text]"
ChunkWhole ==
    /\ pc = "chunk"
    /\ Len(text) <= chunk_size
    /\ text_chunks' = <<text>>
    /\ pc' = "chunked"
    /\ UNCHANGED <<agent, vocab, ret, cotVars, iterVars, extVars, text, chunk_size,
                   chunk_overlap, strategy, start>>

ChunkSentence ==
    /\ pc = "chunk"
    /\ Len(text) > chunk_size
    /\ strategy = "sentence"
    /\ text_chunks' = ChunkBySentence(text, chunk_size, chunk_overlap)
    /\ pc' = "chunked"
    /\ UNCHANGED <<agent, vocab, ret, cotVars, iterVars, extVars, text, chunk_size,
                   chunk_overlap, strategy, start>>

ChunkParagraph ==
    /\ pc = "chunk"
    /\ Len(text) > chunk_size
    /\ strategy = "paragraph"
    /\ text_chunks' = ChunkByParagraph(text, chunk_size, chunk_overlap)
    /\ pc' = "chunked"
    /\ UNCHANGED <<agent, vocab, ret, cotVars, iterVars, extVars, text, chunk_size,
                   chunk_overlap, strategy, start>>

\* _chunk_fixed is entered: chunks = [], start = 0.
BeginFixed ==
    /\ pc = "chunk"
    /\ Len(text) > chunk_size
    /\ strategy \notin {"paragraph", "sentence"}
    /\ pc' = "fixed"
    /\ UNCHANGED <<agent, vocab, ret, cotVars, iterVars, extVars, chunkVars>>

\* One iteration of "while start < len(text)": the chunk is appended, start
\* moves to end - overlap, and the loop is left when start >= len(text).
FixedStep ==
    /\ pc = "fixed"
    /\ Len(text_chunks) < MaxChunks
    /\ LET w == FixedWindow(text, start, chunk_size)
       IN  /\ text_chunks' = Append(text_chunks, Strip(w.chunk))
           /\ start' = w.end - chunk_overlap
           /\ pc' = IF w.end - chunk_overlap >= Len(text) THEN "chunked" ELSE "fixed"
    /\ UNCHANGED <<agent, vocab, ret, cotVars, iterVars, extVars, text, chunk_size,
                   chunk_overlap, strategy>>

NextFixed ==
    \/ ChunkWhole
    \/ BeginFixed
    \/ FixedStep

NextChunk ==
    \/ NextFixed
    \/ ChunkSentence
    \/ ChunkParagraph

SpecChunk == InitChunk /\ [][NextChunk]_vars
SpecChunkFixed == InitChunkFixed /\ [][NextFixed]_vars

\* ===================================================================
\* BenefitsExtractionAgent._merge_benefits as a call on two records
\* pc: "merge", "merged", "raised"
\* ===================================================================
\* The records extract_from_text returns for the answers of the vocabulary:
\* what _extract_iteratively passes to _merge_benefits.
MergeRecords ==
    {ExtractFromText(c).res : c \in {x \in IterCompletions : ~ExtractFromText(x).exc}}

InitMerge ==
    /\ agent = "basic"
    /\ vocab = "basic"
    /\ pc = "merge"
    /\ ret = EmptyDict
    /\ CoTIdle
    /\ IterIdle
    /\ ChunkIdle
    /\ QueryIdle
    /\ ClaimIdle
    /\ NormIdle
    /\ arg_existing \in MergeRecords
    /\ arg_new \in MergeRecords
    /\ merged = EmptyDict

\* merged_benefits = self._merge_benefits(current_benefits, refined_benefits)
MergeCall(ord) ==
    /\ pc = "merge"
    /\ LET m == MergeBenefits(arg_existing, arg_new, ord)
           a == MergeBenefitsArgs(arg_existing, arg_new, ord)
       IN  /\ pc' = IF m.exc THEN "raised" ELSE "merged"
           /\ merged' = IF m.exc THEN merged ELSE m.res
           /\ arg_existing' = a.existing
           /\ arg_new' = a.new
    /\ UNCHANGED <<agent, vocab, ret, cotVars, iterVars, chunkVars, queryVars, claimVars, normVars>>

\* current_benefits = merged_benefits, and the record of the next pass.
MergeAgain(n) ==
    /\ pc = "merged"
    /\ arg_existing' = merged
    /\ arg_new' = n
    /\ merged' = EmptyDict
    /\ pc' = "merge"
    /\ UNCHANGED <<agent, vocab, ret, cotVars, iterVars, chunkVars, queryVars, claimVars, normVars>>

NextMerge ==
    \/ \E ord \in 0..1 : MergeCall(ord)
    \/ \E n \in MergeRecords : MergeAgain(n)

SpecMerge == InitMerge /\ [][NextMerge]_vars

\* ===================================================================
\* BenefitsExtractionAgentCoT._normalize_benefits_data on the network types
\* of a record. A string is a sequence of one-character strings.
\* pc: "normalize", "normalized"
\* ===================================================================
\* Bound: the most whitespace characters on either side of a string.
MaxPad == 1

\* str.lower() and str.upper() on the characters of the model.
ToLower(ch) ==
    CASE ch = "I" -> "i" [] ch = "N" -> "n" [] ch = "E" -> "e" [] ch = "T" -> "t"
      [] ch = "W" -> "w" [] ch = "O" -> "o" [] ch = "R" -> "r" [] ch = "K" -> "k"
      [] ch = "U" -> "u" [] ch = "F" -> "f" [] ch = "P" -> "p"
      [] OTHER -> ch
ToUpper(ch) ==
    CASE ch = "i" -> "I" [] ch = "n" -> "N" [] ch = "e" -> "E" [] ch = "t" -> "T"
      [] ch = "w" -> "W" [] ch = "o" -> "O" [] ch = "r" -> "R" [] ch = "k" -> "K"
      [] ch = "u" -> "U" [] ch = "f" -> "F" [] ch = "p" -> "P"
      [] OTHER -> ch
Lower(t) == [i \in 1..Len(t) |-> ToLower(t[i])]

\* The keys and values of network_mapping.
InHyphen == <<"i", "n", "-", "n", "e", "t", "w", "o", "r", "k">>
InSpace == <<"i", "n", " ", "n", "e", "t", "w", "o", "r", "k">>
OutHyphen == <<"o", "u", "t", "-", "o", "f", "-", "n", "e", "t", "w", "o", "r", "k">>
OutSpace == <<"o", "u", "t", " ", "o", "f", " ", "n", "e", "t", "w", "o", "r", "k">>
InNetwork == <<"i", "n", "_", "n", "e", "t", "w", "o", "r", "k">>
OutOfNetwork == <<"o", "u", "t", "_", "o", "f", "_", "n", "e", "t", "w", "o", "r", "k">>

\* A lookup without the lower-casing: network_mapping.get(value.strip(), ...).
NetworkKeyCaseSensitive(t) == Strip(t)

\* value_lower = value.lower().strip()
NetworkKey(t) == Strip(Lower(t))

\* network_mapping.get(value_lower, value_lower)
NetworkMapping(k) ==
    CASE k = InHyphen -> InNetwork
      [] k = InSpace -> InNetwork
      [] k = OutHyphen -> OutOfNetwork
      [] k = OutSpace -> OutOfNetwork
      [] OTHER -> k

\* A value of a network field: a string or null.
NStr(t) == [t |-> "str", chars |-> t]
NNull == [t |-> "null", chars |-> <<>>]

\* normalize_network(value)
NormalizeNetwork(value) ==
    IF value.t = "str" THEN NStr(NetworkMapping(NetworkKey(value.chars))) ELSE value

\* 'if "network" in item: item["network"] = normalize_network(item["network"])'
NormalizeNetworkItem(item) ==
    IF "network" \in DOMAIN item
    THEN [item EXCEPT !["network"] = NormalizeNetwork(@)]
    ELSE item

\* The loops of _normalize_benefits_data over deductibles, copays,
\* coinsurance and coverage_limits, and over the copay of each service.
NetworkListKeys == {"deductibles", "copays", "coinsurance", "coverage_limits"}
NormalizeNetworks(d) ==
    [k \in DOMAIN d |->
       IF k \in NetworkListKeys
       THEN [i \in 1..Len(d[k]) |-> NormalizeNetworkItem(d[k][i])]
       ELSE IF k = "services"
            THEN [i \in 1..Len(d[k]) |->
                    IF "copay" \in DOMAIN d[k][i] /\ d[k][i]["copay"] # EmptyDict
                    THEN [d[k][i] EXCEPT !["copay"] = NormalizeNetworkItem(@)]
                    ELSE d[k][i]]
            ELSE d[k]]

\* The strings a completion can hold for a network type: a key of the alias
\* table in any mix of upper and lower case, with whitespace around it.
CaseVariants(base) ==
    {[i \in 1..Len(base) |-> IF m[i] THEN ToUpper(base[i]) ELSE base[i]] :
        m \in [1..Len(base) -> BOOLEAN]}
Padded(S) ==
    {l \o t \o r : l \in SeqsUpTo(Whitespace, MaxPad), t \in S,
                   r \in SeqsUpTo(Whitespace, MaxPad)}
AliasStrings(a) ==
    CASE a = "in_network" -> Padded(CaseVariants(InHyphen) \cup CaseVariants(InSpace))
      [] a = "out_of_network" -> Padded(CaseVariants(OutHyphen) \cup CaseVariants(OutSpace))
      [] OTHER -> Padded(CaseVariants(<<"p", "p", "o">>))

\* A record that holds the value in a network field of every kind.
NetworkRecord(v) ==
    [deductibles |-> << [network |-> v] >>,
     copays |-> << [network |-> v] >>,
     coinsurance |-> << [network |-> NNull], [network |-> v] >>,
     coverage_limits |-> << EmptyDict, [network |-> v] >>,
     services |-> << [copay |-> [network |-> v]], [copay |-> EmptyDict] >>]

InitNormalize ==
    /\ agent = "benefits"
    /\ vocab = "networks"
    /\ pc = "normalize"
    /\ ret = EmptyDict
    /\ CoTIdle
    /\ IterIdle
    /\ ChunkIdle
    /\ MergeIdle
    /\ QueryIdle
    /\ ClaimIdle
    /\ alias \in {"in_network", "out_of_network", "other"}
    /\ \E t \in AliasStrings(alias) : data = NetworkRecord(NStr(t))

\* all_results = self._normalize_benefits_data(all_results); return all_results
NormalizeCall ==
    /\ pc = "normalize"
    /\ data' = NormalizeNetworks(data)
    /\ ret' = data'
    /\ pc' = "normalized"
    /\ UNCHANGED <<agent, vocab, cotVars, iterVars, chunkVars, mergeVars, queryVars,
                   claimVars, alias>>

NextNormalize == NormalizeCall

SpecNormalize == InitNormalize /\ [][NextNormalize]_vars

\* ===================================================================
\* PineconeVectorStore.query_private (pinecone_store.py)
\* pc: "query", "queried"
\* ===================================================================
Users == {"u1", "u2"}
DocTypes == {"plan_document", "eob"}
Docs == {"d1", "d2"}

\* The conditions of a metadata filter: {"$eq": x} and {"$in": [...]}.
Eq(x) == [op |-> "$eq", vals |-> {x}]
In(S) == [op |-> "$in", vals |-> S]

\* The vectors of the private namespace, by their metadata.
PrivateIndex == [user_id : Users, doc_type : DocTypes, doc_id : Docs]

\* index.query(filter=f): the vectors whose metadata meets every key of f.
IndexQuery(f) == {v \in PrivateIndex : \A k \in DOMAIN f : v[k] \in f[k].vals}

\* The lists and dicts a caller passes; None and [] / {} are both falsy.
DocTypeLists == {<<>>, <<"plan_document">>, <<"eob">>, <<"plan_document", "eob">>}
AdditionalFilters ==
    {EmptyDict}
    \cup {[doc_id |-> Eq(d)] : d \in Docs}
    \cup {[user_id |-> Eq(u)] : u \in Users}
    \cup {[user_id |-> In(Users)]}
    \cup {[doc_type |-> In({t})] : t \in DocTypes}
    \cup {[doc_id |-> Eq(d), user_id |-> Eq(u)] : d \in Docs, u \in Users}

\* dict.update: the keys of the argument replace those of the dict.
Update(d, a) == [k \in DOMAIN d \cup DOMAIN a |-> IF k \in DOMAIN a THEN a[k] ELSE d[k]]

\* The filter_dict query_private builds.
BuildFilter(u, types, extra) ==
    LET base == [user_id |-> Eq(u)]
        typed == IF types # <<>> THEN Put(base, "doc_type", In(Range(types))) ELSE base
    IN  IF extra # EmptyDict THEN Update(typed, extra) ELSE typed

InitQuery ==
    /\ agent = "store"
    /\ vocab = "store"
    /\ pc = "query"
    /\ ret = EmptyDict
    /\ CoTIdle
    /\ IterIdle
    /\ ChunkIdle
    /\ MergeIdle
    /\ ClaimIdle
    /\ NormIdle
    /\ user_id \in Users
    /\ doc_types \in DocTypeLists
    /\ additional_filter \in AdditionalFilters
    /\ filter_dict = EmptyDict
    /\ query_matches = {}

\* query_private: the filter and the matches of index.query (top_k is taken
\* large enough for every match).
QueryPrivate ==
    /\ pc = "query"
    /\ filter_dict' = BuildFilter(user_id, doc_types, additional_filter)
    /\ query_matches' = IndexQuery(filter_dict')
    /\ pc' = "queried"
    /\ UNCHANGED <<agent, vocab, ret, cotVars, iterVars, chunkVars, mergeVars, claimVars,
                   normVars, user_id, doc_types, additional_filter>>

NextQuery == QueryPrivate

SpecQuery == InitQuery /\ [][NextQuery]_vars

\* ===================================================================
\* ClaimsAgent.process_claim (claims_agent.py): the four nodes of the
\* workflow run in the order of its edges, then process_claim returns.
\* pc: "step1_coverage", "step2_codes", "step3_claim", "step4_status",
\*     "invoked", "returned"
\* ===================================================================
\* Python's None as the value of a state key or of the return.
None == [none |-> TRUE]

\* What the completion function gives a node: no response, text from which
\* _extract_json_from_response gets nothing (or a falsy value), a JSON object,
\* or truthy JSON that is not an object (a text such as [1] without braces).
ClaimCompletions == {"no_response", "no_json", "object", "non_object"}

\* The step output a node stores for a completion it could use.
StepOutput(c) ==
    CASE c = "object" -> [output |-> "result"]
      [] c = "non_object" -> [output |-> "non_object"]
      [] OTHER -> [output |-> "fallback"]

\* "except Exception as e": state["error"] and the step's error dict.
StepError(st, key, n) == [st EXCEPT ![key] = [output |-> "error"], !.error = [step |-> n]]

\* initial_state of process_claim.
InitialState ==
    [step1_coverage |-> None, step2_codes |-> None, step3_claim |-> None,
     step4_status |-> None, current_step |-> 0, payer_id |-> None,
     suggested_codes |-> "empty", final_result |-> None, error |-> None]

InitClaim ==
    /\ agent = "claims"
    /\ vocab = "claims"
    /\ pc = "step1_coverage"
    /\ ret = EmptyDict
    /\ CoTIdle
    /\ IterIdle
    /\ ChunkIdle
    /\ MergeIdle
    /\ QueryIdle
    /\ NormIdle
    /\ state = InitialState

ClaimFrame ==
    UNCHANGED <<agent, vocab, cotVars, iterVars, chunkVars, mergeVars, queryVars, normVars>>

\* _step1_pre_check_coverage. raises: a query or the reading of the response
\* raised; payer: the payer the matches or the answer name. An answer that
\* is not an object raises at step_result.get("payer_id").
Step1(raises, c, payer) ==
    /\ pc = "step1_coverage"
    /\ state' = IF raises \/ c = "non_object"
                THEN StepError(state, "step1_coverage", 1)
                ELSE [state EXCEPT !.step1_coverage = StepOutput(c),
                                   !.payer_id = payer,
                                   !.current_step = 1]
    /\ pc' = "step2_codes"
    /\ ret' = ret
    /\ ClaimFrame

\* _step2_assemble_codes. codes: the shape of suggested_cpt / suggested_icd10
\* in the answer ("codes": lists of objects, "empty", "malformed": None or a
\* list with an entry that is not an object); the fallback for an unusable
\* answer takes the codes of the matches, the one for no response takes none.
Step2(raises, c, codes) ==
    /\ pc = "step2_codes"
    /\ codes = "malformed" => c = "object"
    /\ state' = IF raises \/ c = "non_object"
                THEN StepError(state, "step2_codes", 2)
                ELSE [state EXCEPT !.step2_codes = StepOutput(c),
                                   !.suggested_codes =
                                       IF c = "no_response" THEN @ ELSE codes,
                                   !.current_step = 2]
    /\ pc' = "step3_claim"
    /\ ret' = ret
    /\ ClaimFrame

\* _step3_generate_claim: code.get("code") raises on malformed codes; an
\* answer that is not an object is stored as step3_claim.
Step3(raises, c) ==
    /\ pc = "step3_claim"
    /\ state' = IF raises \/ state.suggested_codes = "malformed"
                THEN StepError(state, "step3_claim", 3)
                ELSE [state EXCEPT !.step3_claim = StepOutput(c),
                                   !.current_step = 3]
    /\ pc' = "step4_status"
    /\ ret' = ret
    /\ ClaimFrame

\* state["final_result"] of _step4_monitor_status.
FinalResult(st) ==
    [workflow_completed |-> TRUE,
     steps |-> <<st.step1_coverage, st.step2_codes, st.step3_claim, st.step4_status>>,
     payer_id |-> st.payer_id]

\* _step4_monitor_status: the final result is compiled after step4_status is
\* stored; state.get("step3_claim", {}).get("claim_json", {}) raises when
\* step3_claim is not an object, and the except clause leaves final_result
\* as it was.
Step4(raises, c) ==
    /\ pc = "step4_status"
    /\ state' = IF raises \/ state.step3_claim = StepOutput("non_object")
                THEN StepError(state, "step4_status", 4)
                ELSE LET st == [state EXCEPT !.step4_status = StepOutput(c)]
                     IN  [st EXCEPT !.final_result = FinalResult(st),
                                    !.current_step = 4]
    /\ pc' = "invoked"
    /\ ret' = ret
    /\ ClaimFrame

\* final_state.get("final_result", final_state): the value of the key when
\* the final state has it, the final state otherwise.
GetFinalResult(final_state, has_key) ==
    IF has_key THEN final_state.final_result ELSE final_state

\* The end of process_claim. raises: workflow.invoke raised; keeps_none:
\* the graph library keeps a key whose value is None in the state it
\* returns (whether it does is the library's choice, not this code's).
Return(raises, keeps_none) ==
    /\ pc = "invoked"
    /\ ret' = IF raises
              THEN [workflow_completed |-> FALSE, error |-> [step |-> 0], state |-> InitialState]
              ELSE GetFinalResult(state, state.final_result # None \/ keeps_none)
    /\ pc' = "returned"
    /\ state' = state
    /\ ClaimFrame

NextClaim ==
    \/ \E raises \in BOOLEAN, c \in ClaimCompletions, payer \in {None, [id |-> "aetna"]} :
          Step1(raises, c, payer)
    \/ \E raises \in BOOLEAN, c \in ClaimCompletions, codes \in {"codes", "empty", "malformed"} :
          Step2(raises, c, codes)
    \/ \E raises \in BOOLEAN, c \in ClaimCompletions : Step3(raises, c)
    \/ \E raises \in BOOLEAN, c \in ClaimCompletions : Step4(raises, c)
    \/ \E raises \in BOOLEAN, keeps_none \in BOOLEAN : Return(raises, keeps_none)

SpecClaim == InitClaim /\ [][NextClaim]_vars

\* ===================================================================
\* Properties of the CoT runs
\* ===================================================================
\* The step that ran _extract_step and the merge loop.
MergeActed == pc = "extract" /\ pc' = "loop"
\* ... and the merge loop went through all keys of the step result.
MergedAll == MergeActed /\ last' = "ok"

\* step_result.get(k)
StepGet(k) == IF k \in KeysOf(step_result') THEN PairsGet(step_result', k) ELSE JNull

\* Number of occurrences of x in q.
Count(x, q) == Cardinality({i \in 1..Len(q) : q[i] = x})
\* The same elements the same number of times.
SameBag(q1, q2) == \A x \in Range(q1) \cup Range(q2) : Count(x, q1) = Count(x, q2)
NoDuplicates(q) == \A i, j \in 1..Len(q) : q[i] = q[j] => i = j

\* C1: merging is monotonic: every field that held a non-empty value in the
\* accumulated result before a step's merge still holds a non-empty value
\* after it.
C1_MergeMonotonic ==
    [][MergeActed =>
         \A k \in DOMAIN all_results :
            Truthy(all_results[k]) => GetTruthy(all_results', k)]_vars

\* The scalar fields of the model.
ScalarFields == {"plan_name", "member_name"}
IsScalar(x) == x.t \in {"str", "num", "bool"}

\* C2: a scalar field that is present and non-empty in the accumulated result
\* is left unchanged by the merge of a step result that carries a value for it.
C2_ScalarKept ==
    [][MergedAll =>
         \A k \in ScalarFields \cap DOMAIN all_results \cap KeysOf(step_result') :
            (IsScalar(all_results[k]) /\ Truthy(all_results[k]))
               => all_results'[k] = all_results[k]]_vars

\* The required fields, which finalization fills with a placeholder (or, for
\* plan_name, with the result of one more extraction) when they are missing.
RequiredFields == {"plan_name", "member_name", "claim_number", "provider_name"}

\* C3: when the completion of exactly one step cannot be parsed (and no step
\* fails otherwise), that step leaves the accumulated result as it was, the
\* loop goes on, and the run ends with a record in which the fields the other
\* steps supplied are populated and the fields of the failed step's category
\* that no other step supplied are empty (a required field may hold what
\* finalization put there).
C3_Tail ==
    (pc \in {"done", "raised"} /\ parse_failures = 1 /\ ~other_failed)
       => /\ pc = "done"
          /\ \A k \in supplied : GetTruthy(ret, k)
          /\ \A k \in StepFields(failed_step) \ (supplied \cup RequiredFields) :
                ~GetTruthy(ret, k)
C3_Step ==
    (MergeActed /\ last' = "parse_error") => all_results' = all_results
C3_MalformedStepNotFatal == [](C3_Tail) /\ [][C3_Step]_vars

\* C4: the caller always receives a record: no exception caused by the content
\* of a completion escapes extract_from_document.
C4_AlwaysRecord == pc # "raised"

\* The records of a services list and their keys.
ServicesOf(x) == IF x.t = "list" THEN x.l ELSE <<>>
NamesOf(q) == {q[i].name : i \in 1..Len(q)}

\* C6: when the accumulated result and the step result both carry a non-empty
\* services list, the merged list holds every accumulated record unchanged, is
\* not shorter, holds nothing but accumulated records and step records with a
\* new key, and holds a step record for every new key.
C6_FirstSeenWins ==
    [][(/\ MergedAll
        /\ Truthy(GetOr(all_results, "services")) /\ GetOr(all_results, "services").t = "list"
        /\ Truthy(StepGet("services")) /\ StepGet("services").t = "list")
       => LET A == all_results["services"].l
              P == StepGet("services").l
              R == ServicesOf(all_results'["services"])
          IN  /\ \A i \in 1..Len(A) : A[i] \in Range(R)
              /\ Len(R) >= Len(A)
              /\ \A r \in Range(R) :
                    r \in Range(A) \/ (r \in Range(P) /\ r.name \notin NamesOf(A))
              /\ \A i \in 1..Len(P) :
                    (NameTruthy(P[i].name) /\ P[i].name \notin NamesOf(A))
                       => \E r \in Range(R) : r \in Range(P) /\ r.name = P[i].name]_vars

\* C7: when the accumulated result has a non-empty coverage_breakdown and the
\* step result supplies a coverage_breakdown object, every non-zero accumulated
\* sub-field is kept, and a sub-field that is absent or zero in the accumulated
\* object takes the step's value when that is truthy.
C7_BreakdownFieldwise ==
    [][(/\ MergedAll
        /\ agent = "eob"
        /\ Truthy(GetOr(all_results, "coverage_breakdown"))
        /\ GetOr(all_results, "coverage_breakdown").t = "obj"
        /\ StepGet("coverage_breakdown").t = "obj")
       => LET a == all_results["coverage_breakdown"].o
              p == StepGet("coverage_breakdown").o
              r == all_results'["coverage_breakdown"].o
          IN  /\ \A k \in DOMAIN a : STruthy(a[k]) => (k \in DOMAIN r /\ r[k] = a[k])
              /\ \A k \in DOMAIN p :
                    (STruthy(p[k]) /\ (k \notin DOMAIN a \/ a[k] = SNum(0)))
                       => (k \in DOMAIN r /\ r[k] = p[k])]_vars

\* The primitive list fields and the lists of primitives.
PrimitiveListKeys == SimpleListKeys \cup EOBSimpleListKeys
IsPrimitiveList(x) == x.t = "list" /\ Hashable(x.l)

\* C8: after merging the accumulated primitive list A (possibly absent or
\* empty) with the step's primitive list P, the field holds every value of A
\* and of P, nothing else, and each value once.
C8_PrimitiveUnion ==
    [][MergedAll =>
         \A k \in PrimitiveListKeys \cap KeysOf(step_result') :
            (/\ IsPrimitiveList(StepGet(k))
             /\ (k \notin DOMAIN all_results \/ IsPrimitiveList(all_results[k])))
               => LET A == ListOf(GetOr(all_results, k))
                      P == StepGet(k).l
                      R == ListOf(all_results'[k])
                  IN  /\ all_results'[k].t = "list"
                      /\ Range(R) = Range(A) \cup Range(P)
                      /\ NoDuplicates(R)]_vars

\* The same value of a scalar or primitive-list field.
SameField(x, y) ==
    IF x.t = "list" /\ y.t = "list" THEN SameBag(x.l, y.l) ELSE x = y

\* C9: merging the step result a second time changes no scalar field and no
\* primitive-list field of the result of merging it once.
C9_Idempotent ==
    [][MergedAll =>
         \A ord \in 0..1 :
            LET twice == MergeStep(agent, all_results', step_result', ord)
            IN  \A k \in (ScalarFields \cup PrimitiveListKeys) \cap DOMAIN all_results' :
                   (IsScalar(all_results'[k]) \/ IsPrimitiveList(all_results'[k]))
                      => SameField(twice.res[k], all_results'[k])]_vars

\* C5: a seed query that raises is skipped and the remaining seeds are still
\* queried; the selector always returns, and only after all seeds of the step
\* were queried; when it returns the empty set the step's text is made of all
\* cached chunks, in order; the text always holds every cached chunk; and the
\* step's extraction is then run.
C5_SelectorFallback ==
    [][/\ (pc = "select" /\ seed_idx < NumSeeds(agent, step_name))
          => /\ pc' = "select"
             /\ seed_idx' = seed_idx + 1
             /\ relevant_indices \subseteq relevant_indices'
       /\ pc = "select" => pc' \in {"select", "extract"}
       /\ (pc = "select" /\ pc' = "extract")
          => /\ seed_idx = NumSeeds(agent, step_name)
             /\ relevant_indices = {} => step_chunks' = SortedSeq(chunks)
             /\ Range(step_chunks') = chunks
             /\ chunks # {} => step_chunks' # <<>>
       /\ pc = "extract" => (pc' = "loop" /\ last' # "none")]_vars

\* Every seed query of the second step raised, the cache is not empty, and the
\* step's text is made of all cached chunks.
C5_Witness ==
    /\ pc = "extract"
    /\ step_idx = 2
    /\ seed_idx = SeedsPerStep
    /\ ~seed_ok
    /\ chunks = 0..(MaxChunk - 1)
    /\ step_chunks = SortedSeq(chunks)

\* ===================================================================
\* Properties of the iterative runs
\* ===================================================================
IterEnded == pc \in {"returned", "raised"}

\* C10: a run of _extract_iteratively issues at most max_iterations extraction
\* passes (the initial pass included); when the loop has used up its
\* iterations the run has returned the accumulated record, whatever is still
\* missing from it; and every run ends.
C10_Bound ==
    /\ passes <= max_iterations
    /\ iteration > max_iterations => (pc = "returned" /\ ret = current_benefits)
C10_IterationBound == [](C10_Bound) /\ <>IterEnded

\* A run with max_iterations >= 2 that used every pass of its budget and
\* returned a record from which categories are still missing.
C10_Witness ==
    /\ pc = "returned"
    /\ max_iterations >= 2
    /\ passes = max_iterations
    /\ iteration > max_iterations
    /\ ret = current_benefits
    /\ AnalyzeMissing(ret).missing # <<>>

\* Number of categories _analyze_missing_information reports for record b.
MissingCount(b) == Len(AnalyzeMissing(b).missing)

\* C11: across the iterations the number of missing categories of the
\* accumulated record never increases; a refinement pass after which the run
\* goes on has strictly reduced it, so a pass that does not reduce it ends the
\* run at that iteration; and a run that has ended issues no further pass.
C11_Step ==
    /\ pc # "initial" => MissingCount(current_benefits') <= MissingCount(current_benefits)
    /\ (pc = "refine" /\ ~IterEnded')
          => MissingCount(current_benefits') < MissingCount(current_benefits)
    /\ (pc = "refine" /\ MissingCount(current_benefits') >= MissingCount(current_benefits))
          => (IterEnded' /\ iteration' = iteration)
    /\ IterEnded => passes' = passes
C11_StagnationStop == [][C11_Step]_vars

\* A run that stopped after its second pass made no progress, with an
\* iteration of its budget left and categories still missing.
C11_Witness ==
    /\ pc = "returned"
    /\ passes = 2
    /\ iteration = 2
    /\ max_iterations > 2
    /\ MissingCount(ret) > 0

\* C12: when the completion of a refinement pass (iteration >= 2) cannot be
\* parsed as JSON, the run does not abort: it returns the record accumulated
\* by the earlier passes.
C12_RefinementParseFailure ==
    [][(pc = "refine" /\ completion' = "unparsable")
         => (pc' = "returned" /\ ret' = current_benefits)]_vars

\* ===================================================================
\* Error handling and finalization of the CoT runs
\* ===================================================================
\* The step whose completion call got no response from the completion function.
TransportFailed == pc = "extract" /\ last' = "transport_error"

C14_PlanNamePlaceholder ==
    (pc = "done" /\ agent = "benefits")
       => /\ GetTruthy(ret, "plan_name")
          /\ ("plan_name" \notin supplied /\ last # "plan_name_found")
                => ret["plan_name"] = JStr(UnknownPlan(DocumentId))

\* Two steps were parsed, none of them supplied a plan_name, the re-extraction
\* found none, and the run returned the placeholder.
C14_Witness ==
    /\ pc = "done"
    /\ agent = "benefits"
    /\ step_idx = 2
    /\ parse_failures = 0
    /\ ~other_failed
    /\ "plan_name" \notin supplied
    /\ last # "plan_name_found"
    /\ ret["plan_name"] = JStr(UnknownPlan(DocumentId))

\* The fields the EOB schema (EOBInfo) declares without a default.
EOBRequiredFields == {"member_name", "claim_number", "provider_name",
                      "total_billed", "total_benefits_approved", "amount_you_owe"}

\* C15: in every record extract_from_document of the EOB CoT agent returns,
\* every field the EOB schema declares required is present with a non-null
\* value.
C15_RequiredFieldsPresent ==
    (pc = "done" /\ agent = "eob")
       => \A k \in EOBRequiredFields : k \in DOMAIN ret /\ ret[k].t # "null"

\* ===================================================================
\* Properties of the chunker
\* ===================================================================
\* C16: the fixed strategy never fails: every iteration of the loop of
\* _chunk_fixed strictly advances the window start (so that the loop ends and
\* a finite chunk list is returned), also when the right edge is snapped back
\* to a sentence boundary.
C16_FixedAdvances == [][pc = "fixed" => start' > start]_vars

\* p is the beginning of t.
IsPrefix(p, t) == Len(p) <= Len(t) /\ SubSeq(t, 1, Len(p)) = p

\* rest is the concatenation of the chunks cs after removing from the front of
\* each of them an overlap region of at most cut characters.
RECURSIVE Rebuilds(_, _, _)
Rebuilds(cs, rest, cut) ==
    IF cs = <<>> THEN rest = <<>>
    ELSE \E k \in 0..Min(cut, Len(Head(cs))) :
            LET piece == SliceFrom(Head(cs), k)
            IN  /\ IsPrefix(piece, rest)
                /\ Rebuilds(Tail(cs), SliceFrom(rest, Len(piece)), cut)

\* C17: for every text and each of the three strategies, the returned chunks,
\* concatenated in index order with the overlap regions removed (the repeated
\* characters and the separator put after them, from every chunk but the
\* first), give the original text exactly.
C17_Reconstruction ==
    pc = "chunked"
       => IF text_chunks = <<>> THEN text = <<>>
          ELSE /\ IsPrefix(text_chunks[1], text)
               /\ Rebuilds(Tail(text_chunks), SliceFrom(text, Len(text_chunks[1])),
                           chunk_overlap + 2)

\* Every unit (sentence, paragraph) of the split is at most n characters long
\* once stripped.
AllShort(units, n) == \A i \in 1..Len(units) : Len(Strip(units[i])) <= n

\* The texts C18 is about.
NoLongUnit ==
    \/ strategy = "fixed"
    \/ strategy = "sentence" /\ AllShort(SplitSentences(text), chunk_size)
    \/ strategy = "paragraph" /\ AllShort(SplitParagraphs(text), chunk_size)

ChunksWithin(n) == \A i \in 1..Len(text_chunks) : Len(text_chunks[i]) <= n

\* C18: for every text under the fixed strategy, and for every text in which
\* each sentence (sentence strategy) or paragraph (paragraph strategy) is at
\* most chunk_size long, every chunk is at most chunk_size + chunk_overlap + 2
\* characters long.
C18_ChunkBound == NoLongUnit => ChunksWithin(chunk_size + chunk_overlap + 2)

\* A paragraph run over paragraphs that are all short enough which returned
\* two chunks or more, one of them longer than chunk_size.
C18_Witness ==
    /\ pc = "chunked"
    /\ strategy = "paragraph"
    /\ NoLongUnit
    /\ Len(text) > chunk_size
    /\ Len(text_chunks) >= 2
    /\ ~ChunksWithin(chunk_size)

\* Some sentence of the text is longer than chunk_size.
HasLongSentence ==
    \E i \in 1..Len(SplitSentences(text)) : Len(Strip(SplitSentences(text)[i])) > chunk_size

\* C19: under the sentence strategy a sentence longer than chunk_size is cut
\* into pieces wherever it occurs in the text, so that every chunk is at most
\* chunk_size + chunk_overlap + 2 characters long.
C19_LongSentenceCut ==
    (pc = "chunked" /\ strategy = "sentence" /\ HasLongSentence)
       => ChunksWithin(chunk_size + chunk_overlap + 2)

\* ===================================================================
\* Order of the chunks in a step's document text
\* ===================================================================
\* C20 as stated: in the document text built for a step the chunks appear in
\* ascending chunk index order, whatever the selector returned.
C20_AscendingOrder ==
    pc = "extract"
       => \A i, j \in 1..Len(step_chunks) : i < j => step_chunks[i] < step_chunks[j]

\* C20 as the code has it: the text holds every cached chunk once; the
\* chunks the selector returned come first and the remaining chunks after
\* them, each group in ascending chunk index order; when the selector returned
\* nothing the text is all chunks in ascending order.
C20_GroupedOrder ==
    pc = "extract"
       => /\ Range(step_chunks) = chunks
          /\ Len(step_chunks) = Cardinality(chunks)
          /\ \A i, j \in 1..Len(step_chunks) :
                i < j =>
                   /\ step_chunks[j] \in relevant_indices => step_chunks[i] \in relevant_indices
                   /\ (step_chunks[i] \in relevant_indices <=> step_chunks[j] \in relevant_indices)
                         => step_chunks[i] < step_chunks[j]

\* The selector returned the last chunk only, and the step's text starts with
\* it and goes on with the chunks before it.
C20_Witness ==
    /\ pc = "extract"
    /\ chunks = 0..(MaxChunk - 1)
    /\ relevant_indices = {MaxChunk - 1}
    /\ Len(step_chunks) = MaxChunk
    /\ step_chunks[1] = MaxChunk - 1
    /\ step_chunks[2] = 0

\* ===================================================================
\* Completeness of a step's document text
\* ===================================================================
\* C21: relevance ranking discards nothing: whatever set of indices the
\* selector returned, the document text handed to the step's extraction holds
\* every cached chunk exactly once and nothing else, the selected chunks
\* before all the remaining ones.
C21_NothingDiscarded ==
    pc = "extract"
       => /\ \A c \in chunks : Count(c, step_chunks) = 1
          /\ \A i \in 1..Len(step_chunks) : step_chunks[i] \in chunks
          /\ \A i \in 1..Len(step_chunks) :
                (i <= Cardinality(relevant_indices)) <=> (step_chunks[i] \in relevant_indices)

\* In the second step the selector returned the first chunk only, and the
\* step's text still holds the other cached chunk after it.
C21_Witness ==
    /\ pc = "extract"
    /\ step_idx = 2
    /\ chunks = 0..(MaxChunk - 1)
    /\ relevant_indices = {0}
    /\ step_chunks = SortedSeq(chunks)

\* ===================================================================
\* The indices the relevance selector returns
\* ===================================================================
\* C22: the relevance selector only returns known chunks: while the seeds of
\* a step are queried and when the selector returns, every index collected
\* in relevant_indices is a key of the chunk cache gathered at the start of
\* the run, whatever chunk_index values the matches carried.
C22_OnlyKnownChunks ==
    pc \in {"select", "extract"} => relevant_indices \subseteq chunks

\* The selector has returned a non-empty set after a seed query matched an
\* index that is not in the cache.
C22_Witness ==
    /\ pc = "extract"
    /\ unknown_seen
    /\ relevant_indices # {}
    /\ relevant_indices # chunks

\* ===================================================================
\* Sequential execution of the steps
\* ===================================================================
\* C23: the steps run strictly one after the other, each once and in list
\* order: the step counter moves by one, and only at the loop head; a step's
\* extraction starts only from its own selection, after the merge of the step
\* before it has ended; and the accumulated result handed to the next step as
\* prior context is changed by the steps that succeeded only, so a step that
\* failed leaves it as it was.
C23_SequentialSteps ==
    [][/\ step_idx' # step_idx
          => (pc = "loop" /\ pc' = "select" /\ step_idx' = step_idx + 1)
       /\ (pc' = "extract" /\ pc # "extract")
          => (pc = "select" /\ step_idx' = step_idx /\ all_results' = all_results)
       /\ pc = "extract"
          => /\ pc' = "loop"
             /\ last' # "ok" => all_results' = all_results]_vars

\* ===================================================================
\* The completeness analyzer
\* ===================================================================
\* The categories of the checklist, in the order of the claim.
Checklist ==
    <<"plan_name", "insurance_provider", "policy_number", "deductibles", "copays",
      "out_of_pocket_maximums", "service_coverage", "network_information", "exclusions">>

\* The number of entries of a list field; none when the field is absent or
\* not a list.
NumEntries(b, k) == IF k \in DOMAIN b /\ b[k].t = "list" THEN Len(b[k].l) ELSE 0

\* The heuristic of a category fails on record b.
HeuristicFails(b, cat) ==
    CASE cat = "deductibles" -> NumEntries(b, "deductibles") = 0
      [] cat = "copays" -> NumEntries(b, "copays") = 0
      [] cat = "exclusions" -> NumEntries(b, "exclusions") = 0
      [] cat = "service_coverage" -> NumEntries(b, "services") < 3
      [] cat = "out_of_pocket_maximums" -> ~GetTruthy(b, "out_of_pocket_max_individual")
      [] cat = "network_information" ->
            \A k \in {"in_network_providers", "network_notes"} :
               k \in DOMAIN b => b[k].t = "null"
      [] OTHER -> ~GetTruthy(b, cat)

\* C24: the completeness analyzer is a fixed checklist: the analysis of the
\* accumulated record gives exactly the categories whose heuristic fails, in
\* the fixed order (service_coverage iff fewer than 3 services, deductibles
\* iff no deductible entry), and it gives the empty list, which ends the run
\* with the accumulated record, iff every heuristic is satisfied.
C24_FixedChecklist ==
    [][pc = "analyze"
         => /\ pc' = "refine"
               => missing_info' = SelectSeq(Checklist,
                                     LAMBDA cat : HeuristicFails(current_benefits, cat))
            /\ (pc' = "returned" /\ ret' = current_benefits)
               <=> \A i \in 1..Len(Checklist) :
                      ~HeuristicFails(current_benefits, Checklist[i])]_vars

\* The record holds two services and every financial field, and the analysis
\* flagged service_coverage but neither deductibles nor copays.
C24_Witness ==
    /\ pc = "refine"
    /\ NumEntries(current_benefits, "services") = 2
    /\ NumEntries(current_benefits, "deductibles") = 1
    /\ "service_coverage" \in Range(missing_info)
    /\ "deductibles" \notin Range(missing_info)
    /\ missing_info[1] = "insurance_provider"

C26_MetadataEnvelope ==
    pc = "done"
       => /\ {"user_id", "source_document_id", "extracted_date"} \subseteq DOMAIN ret
          /\ ret["user_id"] = JStr(UserId)
          /\ ret["source_document_id"] = JStr(DocumentId)
          /\ ret["extracted_date"] = JStr(Now)

\* A step merged another user's id and another document id into the
\* accumulated result, and the run returned a record.
C26_Witness ==
    /\ pc = "done"
    /\ {"user_id", "source_document_id"} \subseteq DOMAIN all_results
    /\ all_results["user_id"] = JStr("u2")
    /\ all_results["source_document_id"] = JStr("d2")
    /\ ret["user_id"] = JStr(UserId)

\* ===================================================================
\* Canonical network types
\* ===================================================================
\* The values of the network fields of a record: of the entries of
\* deductibles, copays, coinsurance and coverage_limits, and of the copay of
\* the services.
NetworkValues(d) ==
    UNION {{d[k][i]["network"] :
               i \in {j \in 1..Len(d[k]) : "network" \in DOMAIN d[k][j]}} :
             k \in NetworkListKeys \cap DOMAIN d}
    \cup {d["services"][i]["copay"]["network"] :
            i \in {j \in 1..Len(d["services"]) : "network" \in DOMAIN d["services"][j]["copay"]}}

\* C27: finalization canonicalizes the network types case-insensitively:
\* every upper/lower-case and surrounding-whitespace variant of "In-Network"
\* or "in network" in a network field of deductibles, copays, coinsurance,
\* coverage_limits or a service copay is in_network in the finalized record,
\* and every such variant of "out-of-network" or "out of network" is
\* out_of_network.
C27_NetworkCanonical ==
    pc = "normalized"
       => /\ alias = "in_network"
             => NetworkValues(ret) = {NNull, NStr(InNetwork)}
          /\ alias = "out_of_network"
             => NetworkValues(ret) = {NNull, NStr(OutOfNetwork)}

\* A record whose network types were variants of "In-Network" or "in
\* network" was normalized, and the returned record holds in_network in the
\* deductible and in the copay of the service.
C27_Witness ==
    /\ pc = "normalized"
    /\ alias = "in_network"
    /\ ret["deductibles"][1]["network"] = NStr(InNetwork)
    /\ ret["services"][1]["copay"]["network"] = NStr(InNetwork)

\* ===================================================================
\* The record returned after the last refinement pass
\* ===================================================================
\* C28: no refinement work is lost: the record _extract_iteratively returns
\* is the initial extraction merged with the result of every refinement pass
\* that was executed; when the run ends in a refinement pass, also one that
\* did not lower the number of missing categories, the returned record is
\* the record that pass merged.
C28_NoRefinementLost ==
    [][(pc = "refine" /\ pc' = "returned") => ret' = merged_benefits']_vars

\* ===================================================================
\* Scope of a private query
\* ===================================================================
\* C29: private queries are always scoped to the caller's user: for every
\* user_id, doc_types and additional_filter, the filter sent to the index
\* requires user_id to equal the user_id argument, and no match belongs to
\* another user.
C29_UserScoped ==
    pc = "queried"
       => /\ "user_id" \in DOMAIN filter_dict
          /\ filter_dict["user_id"] = Eq(user_id)
          /\ \A m \in query_matches : m.user_id = user_id

\* ===================================================================
\* The return of the claims workflow
\* ===================================================================
\* C30: the claims workflow always yields a result: whatever the outcome of
\* the four steps, process_claim returns a dictionary and never None: the
\* final result with workflow_completed true, or a dictionary that describes
\* the error.
C30_AlwaysResult ==
    pc = "returned"
       => /\ ret # None
          /\ \/ "workflow_completed" \in DOMAIN ret
             \/ ret.error # None

====
